---- MODULE Spec2Model ----
(***************************************************************************)
(* A model of the job collector of src/main.py, of the BuiltIn listing     *)
(* collector of src/jobspy/builtin/__init__.py and of the HN Hiring        *)
(* collector of src/hnhiring_scraper.py.                                   *)
(*                                                                         *)
(* The module holds several specifications over one set of variables:      *)
(*   SpecMQ    ActiveMQHandler: construction, send_message, broker drops   *)
(*   SpecCycle JobSpyScraper.run_scraping_cycle, one action per cycle      *)
(*   SpecPage  BuiltinCollector._collect_job_urls_blocking, one action per *)
(*             iteration of its pagination loop                            *)
(*   SpecDedup HNHiringCollector._deduplicate_jobs applied to a list of    *)
(*             jobs, and once more to its own result; or the loops of      *)
(*             BuiltinJobsCollector.scrape over the listings of its        *)
(*             keywords; or HNHiringCollector.scrape with HNFilter.search  *)
(*   SpecConfig ConfigManager._load_config_recursive, one action per call  *)
(*             and one per return                                          *)
(*   SpecMain  main: the configuration is loaded, the scheduler set up,    *)
(*             and cycles run once or from the schedule loop               *)
(*   SpecRotate NetworkManager.rotate_ip, one action per call              *)
(*   SpecWorker BuiltinCollector.collect_job_urls_until_cutoff, directly   *)
(*             or through its worker thread                                *)
(*   SpecHash  JobSpyScraper._compute_title_hash applied to a title        *)
(*   SpecSchema BuiltinTransformer.transform and HNTransformer.transform   *)
(*             applied to a job                                            *)
(*   SpecLabel BuiltinCollector._parse_posted_text applied to the label of *)
(*             a link, and the cutoff test on its result                   *)
(* SpecCycle also runs the handler's send_message on the event of each     *)
(* cycle; apart from that a specification leaves the variables of the      *)
(* other components at rest.                                               *)
(***************************************************************************)
EXTENDS Integers, Sequences, FiniteSets, TLC

VARIABLES
    \* ---- ActiveMQHandler (src/main.py:127-188)
    mqCfgEnabled,   \* messaging.activemq.enabled of the configuration
    mq,             \* the handler: [enabled, connection]
    mqNext,         \* number of the next send_message call (1-based)
    mqLast,         \* what the latest send_message call did
    mqSendCount,    \* per call number: how often connection.send got its message
    mqFailed,       \* history: the calls whose connection.send raised
    mqOpened,       \* history: some connect() was attempted
    \* ---- JobSpyScraper.run_scraping_cycle (src/main.py:438-493)
    net,            \* NetworkManager flags: [rotate_before_request, rotate_after_failure]
    delegated,      \* [hn, builtin]: the site is handled by jobspy.scrape_jobs
    srcEnabled,     \* [hn, builtin]: the enabled attribute of the site's collector
                    \* (FALSE for a delegated site, which has no collector)
    cycPc,          \* position inside run_scraping_cycle, "idle" between cycles
    cyc,            \* the cycle in flight, or the latest finished one
    \* ---- BuiltinCollector._collect_job_urls_blocking (src/jobspy/builtin/__init__.py:101-218)
    pgCfg,          \* [max_age_hours, max_pages, start_page]
    pgClock,        \* hours elapsed since the collection started
    pgPc,           \* "loop" while the pagination loop runs, then "done"
    pgPageNum,      \* page_num
    pgAllJobs,      \* all_jobs
    pgVisited,      \* history: the page numbers navigated, in order
    pgLast,         \* history: the latest loop iteration
    \* ---- HNHiringCollector._deduplicate_jobs (src/hnhiring_scraper.py:69-88)
    ddJobs,         \* jobs, the argument of the first call
    ddPc,           \* "input", then "once" and "twice" after the calls
    ddOnce,         \* the list the first call returned
    ddTwice,        \* the list returned by a second call, on ddOnce
    \* ---- BuiltinJobsCollector.scrape (src/jobspy/builtin/__init__.py:505-594)
    bsJobsMeta,     \* per keyword, in order: the jobs_meta its collection returns
    bsPc,           \* "start", then "done" when scrape has returned
    bsRecords,      \* records
    bsSeen,         \* seen_urls
    bsFetched,      \* history: the URLs given to fetch_and_parse, in order
    bsCollectFails, \* the positions of the keywords whose collection raises
    bsLogged,       \* history: the keywords whose failed collection was logged
    bsRaised,       \* whether an exception left scrape
    \* ---- ConfigManager.load_config (src/main.py:58-106)
    cfFiles,        \* the configuration documents on disk, by resolved path
    cfPc,           \* "load": a call of _load_config_recursive starts;
                    \* "merge": a call returns; "done"; "raised"
    cfPath,         \* path, the argument of the call that starts
    cfSeen,         \* seen
    cfStack,        \* the calls waiting for their base_config, outermost first
    cfBase,         \* the value the latest finished call returned
    cfError,        \* the exception that left _load_config_recursive
    \* ---- main (src/main.py:546-581) and setup_scheduler (src/main.py:496-523)
    mnArgs,         \* args: [run_now, no_schedule]
    mnPc,           \* position inside main, "exited" when the process has ended
    mnCron,         \* config.get('cron_schedule', {}), read once the configuration is loaded
    mnJob,          \* the job registered with schedule: None or Some([every, next_run])
    mnClock,        \* hours elapsed since the process started
    mnCaller,       \* who called the run_scraping_cycle in flight: "main" or "scheduler"
    mnInFlight,     \* history: the calls of run_scraping_cycle that have not returned
    mnCycles,       \* history: the calls of run_scraping_cycle so far
    mnCalled,       \* history: the collectors invoked so far
    mnEvents,       \* history: the types of the events handed to the publisher
    mnExit,         \* how the process ended
    \* ---- NetworkManager (src/main.py:191-250)
    rtManager,      \* the manager: [script_path, script_available_logged]
    rtExists,       \* a file exists at script_path
    rtLog,          \* history: what each rotate_ip call did, in order
    \* ---- BuiltinCollector.collect_job_urls_until_cutoff (src/jobspy/builtin/__init__.py:221-256)
    wkLoopRunning,  \* loop_running: an event loop runs on the calling thread
    wkOutcome,      \* how _collect_job_urls_blocking ends: [exc, res]
    wkPc,           \* the caller: "start", "direct", "join", "returned", "raised"
    wkThread,       \* the worker thread t: "none", "running", "finished"
    wkProgress,     \* pages _collect_job_urls_blocking has gone through
    wkResult,       \* result_container
    wkExc,          \* exc_container
    wkReturn,       \* what the call returned, or the exception it raised
    \* ---- JobSpyScraper._compute_title_hash (src/main.py:330-338)
    thTitles,       \* two titles, the arguments of two calls
    thPc,           \* "input", then "hashed"
    thHashes,       \* what the two calls returned
    \* ---- BuiltinTransformer.transform (src/jobspy/builtin/__init__.py:358-437) and
    \* ---- HNTransformer.transform (src/jobspy/hnhiring/filter.py:134-178)
    trSite,         \* the transformer called: "builtin" or "hnhiring"
    trJob,          \* job, the dict given to transform
    trPc,           \* "input", then "done"
    trRecord,       \* the dict transform returned
    trKeywords,     \* settings["keywords"] of the builtin section
    trFallback,     \* fallback_keywords, the search terms of job_search
    \* ---- HNHiringCollector.scrape (src/hnhiring_scraper.py:23-67) and
    \* ---- HNFilter.search (src/jobspy/hnhiring/filter.py:65-91, src/hn_filter.py:52-76)
    hnModule,       \* the module HNFilter is imported from
    hnEnabled,      \* self.enabled
    hnCategories,   \* settings["categories"]
    hnDays,         \* settings["days"]
    hnMinSalary,    \* settings["min_salary"]
    hnMaxSalary,    \* settings["max_salary"]
    hnResponses,    \* per category, in order: what requests.get does
    hnPc,           \* "start", then "done" when scrape has ended
    hnSearch,       \* what search raised, all_jobs, and the positions the cutoff excluded
    hnResult,       \* the DataFrame scrape returned: columns and rows
    hnRaised,       \* the exception that left scrape, "none" if it returned
    \* ---- BuiltinCollector._parse_posted_text (src/jobspy/builtin/__init__.py:53-98)
    lbText,         \* the label, text
    lbNow,          \* the hour at which the label is parsed
    lbMaxAge,       \* builtin.max_age_hours
    lbPc,           \* "input", then "done"
    lbParsed,       \* posted_at: what _parse_posted_text returned
    lbExcluded      \* posted_at is before the cutoff

mqVars == <<mqCfgEnabled, mq, mqNext, mqLast, mqSendCount, mqFailed, mqOpened>>
cycVars == <<net, delegated, srcEnabled, cycPc, cyc>>
pgVars == <<pgCfg, pgClock, pgPc, pgPageNum, pgAllJobs, pgVisited, pgLast>>
ddVars == <<ddJobs, ddPc, ddOnce, ddTwice>>
bsVars == <<bsJobsMeta, bsPc, bsRecords, bsSeen, bsFetched, bsCollectFails, bsLogged, bsRaised>>
cfVars == <<cfFiles, cfPc, cfPath, cfSeen, cfStack, cfBase, cfError>>
mnVars == <<mnArgs, mnPc, mnCron, mnJob, mnClock, mnCaller, mnInFlight, mnCycles, mnCalled,
            mnEvents, mnExit>>
rtVars == <<rtManager, rtExists, rtLog>>
wkVars == <<wkLoopRunning, wkOutcome, wkPc, wkThread, wkProgress, wkResult, wkExc, wkReturn>>
thVars == <<thTitles, thPc, thHashes>>
trVars == <<trSite, trJob, trPc, trRecord, trKeywords, trFallback>>
hnVars == <<hnModule, hnEnabled, hnCategories, hnDays, hnMinSalary, hnMaxSalary, hnResponses, hnPc, hnSearch, hnResult, hnRaised>>
lbVars == <<lbText, lbNow, lbMaxAge, lbPc, lbParsed, lbExcluded>>
runVars == <<mnVars, rtVars, wkVars, thVars, trVars, hnVars, lbVars>>
vars == <<mqVars, cycVars, pgVars, ddVars, bsVars, cfVars, runVars>>

\* Python's None where the other values are strings.
NoneVal == "None"

\* An optional value of another type: None is the empty sequence, a value
\* x is <<x>>.
None == <<>>
Some(x) == <<x>>
IsSome(o) == o # <<>>
Get(o) == o[1]

Min(a, b) == IF a < b THEN a ELSE b
Max(a, b) == IF a > b THEN a ELSE b

\* The sequences over S of length at most n.
RECURSIVE SeqsUpTo(_, _)
SeqsUpTo(S, n) ==
    IF n = 0 THEN {<<>>}
    ELSE LET shorter == SeqsUpTo(S, n - 1)
         IN shorter \cup {Append(q, x) : q \in {r \in shorter : Len(r) = n - 1}, x \in S}

(***************************************************************************)
(* ActiveMQHandler                                                         *)
(***************************************************************************)

\* Bound: the number of send_message calls followed.
MaxCalls == 3

CallIds == 1..MaxCalls

\* self.connection: None, or a stomp connection that is or is not connected.
ConnStates == {"none", "alive", "dead"}

IsConnected(h) == h.connection = "alive"

\* setup_connection: disconnect a live connection, open a new one, connect.
\* Any exception (disconnect or connect failing) clears self.enabled; a
\* failed connect leaves the new, unconnected connection object in place.
\* Returns the handler and the number of connect() attempts made.
SetupConnection(h, disconnectOk, connectOk) ==
    IF IsConnected(h) /\ ~disconnectOk
    THEN [h |-> [h EXCEPT !.enabled = FALSE], connects |-> 0]
    ELSE IF connectOk
         THEN [h |-> [enabled |-> TRUE, connection |-> "alive"], connects |-> 1]
         ELSE [h |-> [enabled |-> FALSE, connection |-> "dead"], connects |-> 1]

\* ActiveMQHandler.__init__: connection None, enabled from the configuration,
\* and a first setup_connection when enabled.
ActiveMQHandlerInit(cfgEnabled, connectOk) ==
    LET h0 == [enabled |-> cfgEnabled, connection |-> "none"]
    IN IF cfgEnabled THEN SetupConnection(h0, TRUE, connectOk)
                     ELSE [h |-> h0, connects |-> 0]

\* What a send_message call did.
\*   skipped    returned at "messaging disabled"
\*   reconnect  setup_connection was called before the send
\*   sends      number of connection.send invocations for the payload
\*   sendOk     the (last) send returned normally
\*   recover    setup_connection was called after a failed send
\*   connects   connect() attempts made during the call
NoCall == [skipped |-> FALSE, reconnect |-> FALSE, sends |-> 0, sendOk |-> FALSE,
           recover |-> FALSE, connects |-> 0, before |-> [enabled |-> FALSE, connection |-> "none"]]

\* Environment of one send_message call: the outcome of each external call
\* it may make.  connectOk: the connect() of the reconnect before sending;
\* sendOk: connection.send; aliveAfter: the connection still reports
\* connected after a failed send; disconnectOk, reconnectOk: the disconnect()
\* and connect() of the setup_connection that follows a failed send.
SendEnvs == [connectOk : BOOLEAN, sendOk : BOOLEAN, aliveAfter : BOOLEAN,
             disconnectOk : BOOLEAN, reconnectOk : BOOLEAN]

\* A try block whose except handler sends the payload again once the
\* connection is back.
TrySendRetry(h, log, env) ==
    IF env.sendOk
    THEN [h |-> h, log |-> [log EXCEPT !.sends = 1, !.sendOk = TRUE]]
    ELSE LET hf == [h EXCEPT !.connection = IF env.aliveAfter THEN "alive" ELSE "dead"]
             s == SetupConnection(hf, env.disconnectOk, env.reconnectOk)
         IN [h |-> s.h,
             log |-> [log EXCEPT !.sends = IF IsConnected(s.h) THEN 2 ELSE 1,
                                 !.sendOk = IsConnected(s.h),
                                 !.recover = TRUE,
                                 !.connects = log.connects + s.connects]]

\* The try block of send_message and its except handler.
TrySend(h, log, env) ==
    IF env.sendOk
    THEN [h |-> h, log |-> [log EXCEPT !.sends = 1, !.sendOk = TRUE]]
    ELSE LET hf == [h EXCEPT !.connection = IF env.aliveAfter THEN "alive" ELSE "dead"]
             s == SetupConnection(hf, env.disconnectOk, env.reconnectOk)
         IN [h |-> s.h,
             log |-> [log EXCEPT !.sends = 1, !.recover = TRUE,
                                 !.connects = log.connects + s.connects]]

\* A send_message call without the "messaging disabled" early return.
SendMessageNoGuard(h, env) ==
    LET log0 == [NoCall EXCEPT !.before = h]
    IN IF IsConnected(h) THEN TrySend(h, log0, env)
       ELSE LET s == SetupConnection(h, TRUE, env.connectOk)
                l == [log0 EXCEPT !.reconnect = TRUE, !.connects = s.connects]
            IN IF ~s.h.enabled \/ ~IsConnected(s.h) THEN [h |-> s.h, log |-> l]
               ELSE TrySend(s.h, l, env)

\* ActiveMQHandler.send_message.
SendMessage(h, env) ==
    LET log0 == [NoCall EXCEPT !.before = h]
    IN IF ~h.enabled
       THEN [h |-> h, log |-> [log0 EXCEPT !.skipped = TRUE]]
       ELSE IF IsConnected(h)
            THEN TrySend(h, log0, env)
            ELSE LET s == SetupConnection(h, TRUE, env.connectOk)
                     l == [log0 EXCEPT !.reconnect = TRUE, !.connects = s.connects]
                 IN IF ~s.h.enabled \/ ~IsConnected(s.h)
                    THEN [h |-> s.h, log |-> l]
                    ELSE TrySend(s.h, l, env)

\* One send_message call, with the outcome of every external call it makes
\* chosen by the environment.
MQSendMessage ==
    /\ mqNext <= MaxCalls
    /\ \E env \in SendEnvs :
          LET r == SendMessage(mq, env)
          IN /\ mq' = r.h
             /\ mqLast' = r.log
             /\ mqSendCount' = [mqSendCount EXCEPT ![mqNext] = r.log.sends]
             /\ mqFailed' = IF r.log.recover THEN mqFailed \cup {mqNext} ELSE mqFailed
             /\ mqOpened' = (mqOpened \/ r.log.connects > 0)
    /\ mqNext' = mqNext + 1
    /\ UNCHANGED <<mqCfgEnabled, cycVars, pgVars, ddVars, bsVars, cfVars, runVars>>

\* The broker or the network drops the connection: is_connected() turns false.
MQConnectionDrop ==
    /\ mq.connection = "alive"
    /\ mq' = [mq EXCEPT !.connection = "dead"]
    /\ UNCHANGED <<mqCfgEnabled, mqNext, mqLast, mqSendCount, mqFailed, mqOpened, cycVars, pgVars, ddVars, bsVars, cfVars, runVars>>

\* The handler after construction, for either setting of the configuration
\* and either outcome of the first connect().
MQInit ==
    /\ mqCfgEnabled \in BOOLEAN
    /\ \E connectOk \in BOOLEAN :
          LET c == ActiveMQHandlerInit(mqCfgEnabled, connectOk)
          IN /\ mq = c.h
             /\ mqOpened = (c.connects > 0)
    /\ mqNext = 1
    /\ mqLast = NoCall
    /\ mqSendCount = [i \in CallIds |-> 0]
    /\ mqFailed = {}

(***************************************************************************)
(* BuiltinCollector: the posted label and the pagination loop              *)
(***************************************************************************)

\* Time is counted in hours; the collection starts at hour 0.
HoursPerDay == 24

\* A posted label is a sequence of tokens: a run of digits (with a "+"
\* glued to it or not) or a word.
Num(n) == [kind |-> "num", n |-> n, plus |-> FALSE, w |-> ""]
NumPlus(n) == [kind |-> "num", n |-> n, plus |-> TRUE, w |-> ""]
Word(w) == [kind |-> "word", n |-> 0, plus |-> FALSE, w |-> w]

\* str.lower() on the words of the labels.
LowerWord(w) ==
    CASE w = "Just" -> "just"
      [] w = "Posted" -> "posted"
      [] w = "Hours" -> "hours"
      [] w = "Hour" -> "hour"
      [] w = "Days" -> "days"
      [] w = "Day" -> "day"
      [] w = "Ago" -> "ago"
      [] w = "Yesterday" -> "yesterday"
      [] w = "An" -> "an"
      [] w = "Remote" -> "remote"
      [] w = "REMOTE" -> "remote"
      [] OTHER -> w

Lower(text) == [i \in 1..Len(text) |-> [text[i] EXCEPT !.w = LowerWord(@)]]

\* Substring tests on a lower-cased word.
HasJust(w) == w \in {"just"}
HasHour(w) == w \in {"hour", "hours"}
HasDay(w) == w \in {"day", "days", "yesterday", "today"}
\* The word starts with a unit of the pattern hour|hours|hr|hrs|day|days.
StartsHourUnit(w) == w \in {"hour", "hours", "hr", "hrs"}
StartsDayUnit(w) == w \in {"day", "days"}

\* The words of a text.
WordsOf(text) == {text[i].w : i \in {j \in 1..Len(text) : text[j].kind = "word"}}

\* re.search(r'(?P<n>\d+)\+?\s*(?P<unit>hour|hours|hr|hrs|day|days)', text):
\* the positions of a number directly followed by a unit word.
UnitMatches(text) ==
    {i \in 1..(Len(text) - 1) :
        /\ text[i].kind = "num"
        /\ text[i + 1].kind = "word"
        /\ (StartsHourUnit(text[i + 1].w) \/ StartsDayUnit(text[i + 1].w))}

MinOf(S) == CHOOSE x \in S : \A y \in S : x <= y

\* A parse that tries the hour units before the day units: a number
\* followed by an hour unit anywhere in the text wins over a number followed
\* by a day unit before it.
ParsePostedTextHoursFirst(raw, now) ==
    IF raw = <<>> THEN None
    ELSE LET text == Lower(raw)
             m == UnitMatches(text)
             hours == {i \in m : StartsHourUnit(text[i + 1].w)}
         IN IF \E w \in WordsOf(text) : HasJust(w) THEN Some(now)
            ELSE IF hours # {} THEN Some(now - text[MinOf(hours)].n)
            ELSE IF m # {} THEN Some(now - HoursPerDay * text[MinOf(m)].n)
            ELSE IF \E w \in WordsOf(text) : HasHour(w)
            THEN IF text[1].kind = "num" /\ ~text[1].plus
                 THEN Some(now - text[1].n)
                 ELSE Some(now)
            ELSE IF \E w \in WordsOf(text) : HasDay(w)
            THEN IF text[1].kind = "num"
                 THEN Some(now - HoursPerDay * text[1].n)
                 ELSE Some(now - HoursPerDay * 30)
            ELSE Some(now)

\* BuiltinCollector._parse_posted_text at time now: None for an empty text,
\* else a time.
ParsePostedText(raw, now) ==
    IF raw = <<>> THEN None
    ELSE LET text == Lower(raw)
             m == UnitMatches(text)
         IN IF \E w \in WordsOf(text) : HasJust(w) THEN Some(now)
            ELSE IF m # {}
            THEN LET i == MinOf(m)
                 IN IF StartsHourUnit(text[i + 1].w)
                    THEN Some(now - text[i].n)
                    ELSE Some(now - HoursPerDay * text[i].n)
            ELSE IF \E w \in WordsOf(text) : HasHour(w)
            THEN IF text[1].kind = "num" /\ ~text[1].plus
                 THEN Some(now - text[1].n)
                 ELSE Some(now)
            ELSE IF \E w \in WordsOf(text) : HasDay(w)
            THEN IF text[1].kind = "num"
                 THEN Some(now - HoursPerDay * text[1].n)
                 ELSE Some(now - HoursPerDay * 30)
            ELSE Some(now)

\* Bound: the number of job links on a listing page.
MaxLinks == 2
\* Bound: the hours that pass while the pages are visited.
MaxElapsed == 1

\* The labels of the listing pages: "2 Hours Ago" and "3 Days Ago".
TwoHoursAgo == <<Num(2), Word("Hours"), Word("Ago")>>
ThreeDaysAgo == <<Num(3), Word("Days"), Word("Ago")>>

\* posted_text of a link: None when no label is found near the link.
PostedTexts == {None, Some(TwoHoursAgo), Some(ThreeDaysAgo)}

\* A job link of a listing page: its href (or none) and the label found for
\* it.  The label of a link without href is never read; one such link, next
\* to an old label, stands for them.
Links == [href : {"/job/a"}, posted_text : PostedTexts]
            \cup {[href |-> NoneVal, posted_text |-> Some(ThreeDaysAgo)]}

\* The content of a listing page: its job links, in document order.
Pages == SeqsUpTo(Links, MaxLinks)

\* builtin.max_age_hours (0 or None: no cutoff), builtin.max_pages, builtin.start_page
MaxAgeChoices == {0, 24}
MaxPagesChoices == {-1, 0, 1, 2}
StartPages == {1, 2}

\* cutoff = utcnow() - timedelta(hours=max_age_hours) when max_age_hours is set
Cutoff(cfg) == IF cfg.max_age_hours # 0 THEN Some(0 - cfg.max_age_hours) ELSE None

\* posted_at of a link (lines 169-175)
PostedAt(link, now) ==
    IF IsSome(link.posted_text) THEN ParsePostedText(Get(link.posted_text), now) ELSE None

\* cutoff and posted_at and posted_at < cutoff (line 177)
BeforeCutoff(cutoff, posted_at) ==
    IsSome(cutoff) /\ IsSome(posted_at) /\ Get(posted_at) < Get(cutoff)

Job(link, now) ==
    [url |-> "https://builtin.com" \o link.href,
     posted_text |-> link.posted_text,
     posted_at |-> PostedAt(link, now)]

\* A loop over the links that skips a record older than the cutoff and goes
\* on with the rest of the page.
RECURSIVE ScanLinksSkipOld(_, _, _, _)
ScanLinksSkipOld(links, cutoff, now, acc) ==
    IF links = <<>> THEN acc
    ELSE LET link == Head(links)
             posted_at == PostedAt(link, now)
         IN IF link.href = NoneVal THEN ScanLinksSkipOld(Tail(links), cutoff, now, acc)
            ELSE IF BeforeCutoff(cutoff, posted_at)
            THEN ScanLinksSkipOld(Tail(links), cutoff, now, acc)
            ELSE ScanLinksSkipOld(Tail(links), cutoff, now,
                     [acc EXCEPT !.jobs = Append(@, Job(link, now)),
                                 !.page_posted_ats =
                                     IF IsSome(posted_at) THEN Append(@, Get(posted_at)) ELSE @])

\* A loop over the links that appends a record before it compares its
\* timestamp with the cutoff.
RECURSIVE ScanLinksKeepOld(_, _, _, _)
ScanLinksKeepOld(links, cutoff, now, acc) ==
    IF links = <<>> THEN acc
    ELSE LET link == Head(links)
             posted_at == PostedAt(link, now)
             kept == [acc EXCEPT !.jobs = Append(@, Job(link, now)),
                                 !.page_posted_ats =
                                     IF IsSome(posted_at) THEN Append(@, Get(posted_at)) ELSE @]
         IN IF link.href = NoneVal THEN ScanLinksKeepOld(Tail(links), cutoff, now, acc)
            ELSE IF BeforeCutoff(cutoff, posted_at)
            THEN [kept EXCEPT !.stop = TRUE]
            ELSE ScanLinksKeepOld(Tail(links), cutoff, now, kept)

\* A loop over the links without the mid-page cutoff: every link with an
\* href is appended, and its timestamp recorded, however old it is.
RECURSIVE ScanLinksNoCutoff(_, _, _, _)
ScanLinksNoCutoff(links, cutoff, now, acc) ==
    IF links = <<>> THEN acc
    ELSE LET link == Head(links)
             posted_at == PostedAt(link, now)
         IN IF link.href = NoneVal THEN ScanLinksNoCutoff(Tail(links), cutoff, now, acc)
            ELSE ScanLinksNoCutoff(Tail(links), cutoff, now,
                     [acc EXCEPT !.jobs = Append(@, Job(link, now)),
                                 !.page_posted_ats =
                                     IF IsSome(posted_at) THEN Append(@, Get(posted_at)) ELSE @])

\* The for loop over the links of a page (lines 145-197): a link without
\* href is skipped; a link older than the cutoff sets stop and ends the
\* loop; any other link is appended to all_jobs and its posted_at, when
\* there is one, to page_posted_ats.
RECURSIVE ScanLinks(_, _, _, _)
ScanLinks(links, cutoff, now, acc) ==
    IF links = <<>> THEN acc
    ELSE LET link == Head(links)
             posted_at == PostedAt(link, now)
         IN IF link.href = NoneVal THEN ScanLinks(Tail(links), cutoff, now, acc)
            ELSE IF BeforeCutoff(cutoff, posted_at)
            THEN [acc EXCEPT !.stop = TRUE]
            ELSE ScanLinks(Tail(links), cutoff, now,
                     [acc EXCEPT !.jobs = Append(@, Job(link, now)),
                                 !.page_posted_ats =
                                     IF IsSome(posted_at) THEN Append(@, Get(posted_at)) ELSE @])

ScanStart == [jobs |-> <<>>, page_posted_ats |-> <<>>, stop |-> FALSE]

SeqMin(q) == MinOf({q[i] : i \in 1..Len(q)})

\* An oldest-on-page check that stops when every timestamp of the page is
\* older than the cutoff, also when the page has none.
StopOnOldestEvery(cutoff, page_posted_ats) ==
    /\ IsSome(cutoff)
    /\ \A i \in 1..Len(page_posted_ats) : page_posted_ats[i] < Get(cutoff)

\* The oldest-on-page check (lines 202-211).
StopOnOldest(cutoff, page_posted_ats) ==
    /\ IsSome(cutoff)
    /\ page_posted_ats # <<>>
    /\ SeqMin(page_posted_ats) < Get(cutoff)

\* An iteration that goes on with the next page when a page has no links.
VisitPageSkipEmpty(links, cutoff, now) ==
    LET r == ScanLinks(links, cutoff, now, ScanStart)
    IN r @@ [reason |-> IF r.stop THEN "cutoff"
                        ELSE IF StopOnOldest(cutoff, r.page_posted_ats) THEN "oldest"
                        ELSE "next"]

\* One iteration of the loop after the page limit check: what it does with
\* the content of the page it navigated to.
\*   reason  why the loop ended here: "no_links", "cutoff", "oldest", or
\*           "next" when it goes on with the next page
VisitPage(links, cutoff, now) ==
    IF links = <<>>
    THEN ScanStart @@ [reason |-> "no_links"]
    ELSE LET r == ScanLinks(links, cutoff, now, ScanStart)
         IN r @@ [reason |-> IF r.stop THEN "cutoff"
                             ELSE IF StopOnOldest(cutoff, r.page_posted_ats) THEN "oldest"
                             ELSE "next"]

\* No iteration yet.
\*   before  len(all_jobs) when the iteration started
NoVisit == [kind |-> "none", page_num |-> 0, links |-> <<>>, now |-> 0,
            before |-> 0, page_posted_ats |-> <<>>, stop |-> FALSE, reason |-> "none"]

\* A page limit that lets one more page through.
EffectiveMaxPagesPlusOne(cfg) == Max(1, cfg.max_pages) + 1

\* max_pages = max(1, self.max_pages)
EffectiveMaxPages(cfg) == Max(1, cfg.max_pages)

\* The loop ends at its first check: page_num - start_page >= max_pages.
PageLimitReached ==
    /\ pgPc = "loop"
    /\ pgPageNum - pgCfg.start_page >= EffectiveMaxPages(pgCfg)
    /\ pgPc' = "done"
    /\ pgLast' = [NoVisit EXCEPT !.kind = "limit", !.page_num = pgPageNum,
                                 !.before = Len(pgAllJobs), !.reason = "max_pages"]
    /\ UNCHANGED <<pgCfg, pgClock, pgPageNum, pgAllJobs, pgVisited, mqVars, cycVars, ddVars, bsVars, cfVars, runVars>>

\* One iteration that navigates to page page_num and processes its links.
PageVisit ==
    /\ pgPc = "loop"
    /\ pgPageNum - pgCfg.start_page < EffectiveMaxPages(pgCfg)
    /\ \E links \in Pages :
          LET r == VisitPage(links, Cutoff(pgCfg), pgClock)
          IN /\ pgVisited' = Append(pgVisited, pgPageNum)
             /\ pgAllJobs' = pgAllJobs \o r.jobs
             /\ pgPageNum' = IF r.reason = "next" THEN pgPageNum + 1 ELSE pgPageNum
             /\ pgPc' = IF r.reason = "next" THEN "loop" ELSE "done"
             /\ pgLast' = [kind |-> "visit", page_num |-> pgPageNum, links |-> links,
                           now |-> pgClock, before |-> Len(pgAllJobs),
                           page_posted_ats |-> r.page_posted_ats,
                           stop |-> r.stop, reason |-> r.reason]
    /\ UNCHANGED <<pgCfg, pgClock, mqVars, cycVars, ddVars, bsVars, cfVars, runVars>>

\* Time passes between two pages.
PageTick ==
    /\ pgPc = "loop"
    /\ pgClock < MaxElapsed
    /\ pgClock' = pgClock + 1
    /\ UNCHANGED <<pgCfg, pgPc, pgPageNum, pgAllJobs, pgVisited, pgLast, mqVars, cycVars, ddVars, bsVars, cfVars, runVars>>

\* _collect_job_urls_blocking before its loop (lines 107-113).
PageInit ==
    /\ pgCfg \in [max_age_hours : MaxAgeChoices, max_pages : MaxPagesChoices,
                  start_page : StartPages]
    /\ pgClock = 0
    /\ pgPc = "loop"
    /\ pgPageNum = pgCfg.start_page
    /\ pgAllJobs = <<>>
    /\ pgVisited = <<>>
    /\ pgLast = NoVisit

(***************************************************************************)
(* JobSpyScraper.run_scraping_cycle                                        *)
(***************************************************************************)

\* Bound: the number of rows one source returns in a cycle.
MaxRows == 1

\* Job URLs; a row of the third-party engine may have none.
Urls == {"u1", "u2"}

\* A title is None or a string, a sequence of characters.
TitleA == Some(<<" ", "a">>)

\* A title that is no string: the NaN of a frame's missing cell.  A string
\* s is Some(s).
NaN == <<"float", "nan">>

\* isinstance(title, str)
IsStr(title) == Len(title) = 1

\* A DataFrame: its column names and its rows.  Every row is a record over
\* the four columns the cycle reads or writes; a column a frame lacks is
\* None (NaN) in its rows.
Row(site, url) == [site |-> site, job_url |-> url, title |-> TitleA, title_hash |-> None]

\* BuiltinTransformer.columns and HNTransformer.columns, restricted to the
\* columns the cycle reads or writes.
TransformerCols == {"site", "job_url", "title", "title_hash"}

\* The columns of a frame of the third-party engine (it computes no title_hash).
JobspyCols == {"site", "job_url", "title"}

\* pd.DataFrame()
EmptyFrame == [cols |-> {}, rows |-> <<>>]

\* df.empty
IsEmpty(df) == Len(df.rows) = 0 \/ df.cols = {}

SeqUrls(rows) == {rows[i].job_url : i \in 1..Len(rows)}

\* The rows of the third-party engine: any URL or none; a title may be
\* missing.
JobspyRows ==
    {Row("indeed", u) : u \in Urls \cup {NoneVal}}
        \cup {[Row("indeed", "u1") EXCEPT !.title = NaN]}

\* What JobSpyScraper.scrape_jobs can return: pd.DataFrame() when nothing
\* was collected, else the concatenation of the engine's results, in which
\* URLs may repeat or be missing.
JobspyFrames ==
    {EmptyFrame} \cup
    {[cols |-> JobspyCols, rows |-> r] : r \in SeqsUpTo(JobspyRows, MaxRows) \ {<<>>}}

\* What a collector's scrape can return: its transformer's columns and rows
\* with distinct URLs, none missing (HNHiringCollector._deduplicate_jobs,
\* the seen_urls set of BuiltinJobsCollector.scrape).
CollectorFrames(site) ==
    {[cols |-> TransformerCols, rows |-> r] :
        r \in {q \in SeqsUpTo({Row(site, u) : u \in Urls}, MaxRows) :
                 Cardinality(SeqUrls(q)) = Len(q)}}

\* The outcome of calling a collector: it raises, or returns a frame.
CollectorOutcomes(site) ==
    {[raises |-> TRUE, df |-> EmptyFrame]} \cup
    {[raises |-> FALSE, df |-> f] : f \in CollectorFrames(site)}

\* scrape of a collector whose enabled setting is false: the empty frame
\* of the transformer's columns, at once (hnhiring_scraper.py lines 25-27,
\* BuiltinJobsCollector.scrape lines 506-508).
DisabledOutcome == [raises |-> FALSE, df |-> [cols |-> TransformerCols, rows |-> <<>>]]

\* What the call of a collector's scrape can do, for its enabled setting.
ScrapeOutcomes(site, isEnabled) ==
    IF isEnabled THEN CollectorOutcomes(site) ELSE {DisabledOutcome}

\* A guard that lets the collector's exception through.
GuardedCollectNoExcept(label, outcome, n) ==
    LET pre == IF n.rotate_before_request THEN <<"pre_request:" \o label>> ELSE <<>>
    IN [df |-> outcome.df, rotations |-> pre, escaped |-> outcome.raises]

\* A guard that rotates after every call, whatever its outcome.
GuardedCollectRotateAfter(label, outcome, n) ==
    LET pre == IF n.rotate_before_request THEN <<"pre_request:" \o label>> ELSE <<>>
        post == IF n.rotate_after_failure THEN <<"failure:" \o label>> ELSE <<>>
    IN [df |-> IF outcome.raises THEN EmptyFrame ELSE outcome.df,
        rotations |-> pre \o post, escaped |-> FALSE]

\* JobSpyScraper._guarded_collect: rotate before the call when configured,
\* call the collector, and on any exception rotate when configured and
\* return pd.DataFrame().  escaped: an exception left the guard.
GuardedCollect(label, outcome, n) ==
    LET pre == IF n.rotate_before_request THEN <<"pre_request:" \o label>> ELSE <<>>
    IN IF outcome.raises
       THEN [df |-> EmptyFrame,
             rotations |-> pre \o (IF n.rotate_after_failure
                                   THEN <<"failure:" \o label>> ELSE <<>>),
             escaped |-> FALSE]
       ELSE [df |-> outcome.df, rotations |-> pre, escaped |-> FALSE]

\* The whitespace characters of the model.
Whitespace == {" ", "\t"}

\* str.strip() on a sequence of characters.
RECURSIVE Strip(_)
Strip(t) ==
    IF t = <<>> THEN t
    ELSE IF Head(t) \in Whitespace THEN Strip(Tail(t))
    ELSE IF t[Len(t)] \in Whitespace THEN Strip(SubSeq(t, 1, Len(t) - 1))
    ELSE t

\* The number of characters of the trimmed title that are hashed.
HashPrefixLen == 100

\* A hash of the whole trimmed title.
ComputeTitleHashWhole(title) ==
    IF ~IsStr(title) THEN None
    ELSE LET stripped == Strip(Get(title))
         IN IF stripped = <<>> THEN None ELSE Some(stripped)

\* JobSpyScraper._compute_title_hash; the digest is modelled as an
\* injective function of the hashed snippet.
ComputeTitleHash(title) ==
    IF ~IsStr(title) THEN None
    ELSE LET stripped == Strip(Get(title))
             snippet == SubSeq(stripped, 1, Min(HashPrefixLen, Len(stripped)))
         IN IF snippet = <<>> THEN None ELSE Some(snippet)

\* pd.concat(dataframes, ignore_index=True, sort=False) of a sequence of frames.
RECURSIVE Concat(_)
Concat(frames) ==
    IF frames = <<>> THEN EmptyFrame
    ELSE LET rest == Concat(Tail(frames))
         IN [cols |-> Head(frames).cols \cup rest.cols,
             rows |-> Head(frames).rows \o rest.rows]

\* The rows of a sequence, one per URL (the first), URL-less rows all kept.
RECURSIVE DedupByUrl(_, _)
DedupByUrl(rows, seen) ==
    IF rows = <<>> THEN <<>>
    ELSE LET r == Head(rows)
         IN IF r.job_url # NoneVal /\ r.job_url \in seen
            THEN DedupByUrl(Tail(rows), seen)
            ELSE <<r>> \o DedupByUrl(Tail(rows), seen \cup {r.job_url})

NonEmptyFrames(frames) == SelectSeq(frames, LAMBDA f : ~IsEmpty(f))

\* A merge that deduplicates the union by URL.
CombineFramesDedup(jobspy_df, hn_df, builtin_df) ==
    LET dataframes == NonEmptyFrames(<<jobspy_df, hn_df, builtin_df>>)
        c == Concat(dataframes)
    IN IF dataframes # <<>> THEN [c EXCEPT !.rows = DedupByUrl(c.rows, {})]
       ELSE [cols |-> TransformerCols, rows |-> <<>>]

\* run_scraping_cycle, lines 466-470: the non-empty frames concatenated, or
\* an empty frame with the default columns.
CombineFrames(jobspy_df, hn_df, builtin_df) ==
    LET dataframes == NonEmptyFrames(<<jobspy_df, hn_df, builtin_df>>)
    IN IF dataframes # <<>> THEN Concat(dataframes)
       ELSE [cols |-> TransformerCols, rows |-> <<>>]

\* A cycle that adds the title_hash column and computes no hash.
WithTitleHashColumnOnly(df) == [df EXCEPT !.cols = df.cols \cup {"title_hash"}]

\* run_scraping_cycle, lines 472-476: the title_hash column is added when
\* missing and computed from the titles when there are rows.
WithTitleHash(df) ==
    LET d == [df EXCEPT !.cols = df.cols \cup {"title_hash"}]
    IN IF Len(d.rows) > 0 /\ "title" \in d.cols
       THEN [d EXCEPT !.rows = [i \in 1..Len(d.rows) |->
                 [d.rows[i] EXCEPT !.title_hash = ComputeTitleHash(d.rows[i].title)]]]
       ELSE d

\* notify_csv_ready's message and the except handler's message.
CsvReady(path, n) == [type |-> "csv_ready", csv_path |-> path, row_count |-> n]
ScrapingError(why) == [type |-> "scraping_error", error |-> why]

\* save_to_csv's file name (its time stamp is not modelled).
CsvPath == "jobs.csv"

\* A cycle before its first step.  prev is the type of the event of the
\* cycle before it ("none" for the first cycle).
\*   called      the collectors that were called
\*   raised      the collectors whose call raised
\*   error       what escaped the cycle body: "none", "write" (save_to_csv
\*               failed) or the label of a collector
\*   events      the messages handed to mq_handler.send_message, in order
\*   propagated  an exception left run_scraping_cycle
NewCycle(prev) ==
    [jobspy |-> EmptyFrame, hn |-> EmptyFrame, builtin |-> EmptyFrame,
     called |-> {}, raised |-> {}, rotations |-> <<>>,
     error |-> "none", written |-> FALSE, artifact |-> EmptyFrame,
     events |-> <<>>, propagated |-> FALSE, finished |-> FALSE, prev |-> prev]

LastEventType(c) ==
    IF c.events = <<>> THEN "none" ELSE c.events[Len(c.events)].type

\* A cycle end whose except clause does not catch: the exception leaves
\* run_scraping_cycle and no error event is sent.
FinishCycleNoHandler(c, writeOk) ==
    LET combined == WithTitleHash(CombineFrames(c.jobspy, c.hn, c.builtin))
    IN IF c.error = "none" /\ writeOk
       THEN [c EXCEPT !.written = TRUE, !.artifact = combined, !.finished = TRUE,
                      !.events = <<CsvReady(CsvPath, Len(combined.rows))>>]
       ELSE [c EXCEPT !.error = IF c.error = "none" THEN "write" ELSE c.error,
                      !.finished = TRUE, !.propagated = TRUE]

\* A cycle end that notifies before it saves: when save_to_csv then fails,
\* the completion event is already out and the error event follows it.
FinishCycleNotifyFirst(c, writeOk) ==
    LET combined == WithTitleHash(CombineFrames(c.jobspy, c.hn, c.builtin))
        ready == CsvReady(CsvPath, Len(combined.rows))
    IN IF c.error = "none" /\ writeOk
       THEN [c EXCEPT !.written = TRUE, !.artifact = combined, !.finished = TRUE,
                      !.events = <<ready>>]
       ELSE [c EXCEPT !.error = IF c.error = "none" THEN "write" ELSE c.error,
                      !.finished = TRUE,
                      !.events = (IF c.error = "none" THEN <<ready>> ELSE <<>>)
                                 \o <<ScrapingError(IF c.error = "none" THEN "write" ELSE c.error)>>]

\* A cycle end whose completion event is always followed by an error event.
FinishCycleBothEvents(c, writeOk) ==
    LET combined == WithTitleHash(CombineFrames(c.jobspy, c.hn, c.builtin))
    IN IF c.error = "none" /\ writeOk
       THEN [c EXCEPT !.written = TRUE, !.artifact = combined, !.finished = TRUE,
                      !.events = <<CsvReady(CsvPath, Len(combined.rows)),
                                   ScrapingError("notify")>>]
       ELSE [c EXCEPT !.error = IF c.error = "none" THEN "write" ELSE c.error,
                      !.finished = TRUE,
                      !.events = <<ScrapingError(IF c.error = "none" THEN "write" ELSE c.error)>>]

\* run_scraping_cycle from line 466 to its end: merge, title hashes,
\* save_to_csv, notify_csv_ready; the except clause sends the error event
\* for anything that escaped the body, here or earlier.
FinishCycle(c, writeOk) ==
    LET combined == WithTitleHash(CombineFrames(c.jobspy, c.hn, c.builtin))
    IN IF c.error = "none" /\ writeOk
       THEN [c EXCEPT !.written = TRUE, !.artifact = combined, !.finished = TRUE,
                      !.events = <<CsvReady(CsvPath, Len(combined.rows))>>]
       ELSE [c EXCEPT !.error = IF c.error = "none" THEN "write" ELSE c.error,
                      !.finished = TRUE,
                      !.events = <<ScrapingError(IF c.error = "none" THEN "write" ELSE c.error)>>]

\* A scheduler tick (or the single run of main) enters run_scraping_cycle:
\* self.scrape_jobs() returns the engine's frame.
CycleScrapeJobs ==
    /\ cycPc = "idle"
    /\ \E f \in JobspyFrames :
          cyc' = [NewCycle(LastEventType(cyc)) EXCEPT !.jobspy = f]
    /\ cycPc' = "hn"
    /\ UNCHANGED <<net, delegated, srcEnabled, mqVars, pgVars, ddVars, bsVars, cfVars, runVars>>

\* One source of the cycle (lines 450-464): the guarded collector call, or
\* an empty frame when the engine handles the site.
CollectStep(c, label, isDelegated, outcome) ==
    IF isDelegated THEN c
    ELSE LET g == GuardedCollect(label, outcome, net)
             c1 == [c EXCEPT !.called = @ \cup {label},
                             !.raised = IF outcome.raises THEN @ \cup {label} ELSE @,
                             !.rotations = @ \o g.rotations,
                             !.error = IF g.escaped THEN label ELSE @]
         IN IF label = "hnhiring" THEN [c1 EXCEPT !.hn = g.df]
                                  ELSE [c1 EXCEPT !.builtin = g.df]

CycleCollectHN ==
    /\ cycPc = "hn"
    /\ \E o \in ScrapeOutcomes("hnhiring", srcEnabled.hn) :
          cyc' = CollectStep(cyc, "hnhiring", delegated.hn, o)
    /\ cycPc' = IF cyc'.error = "none" THEN "builtin" ELSE "finish"
    /\ UNCHANGED <<net, delegated, srcEnabled, mqVars, pgVars, ddVars, bsVars, cfVars, runVars>>

CycleCollectBuiltin ==
    /\ cycPc = "builtin"
    /\ \E o \in ScrapeOutcomes("builtin", srcEnabled.builtin) :
          cyc' = CollectStep(cyc, "builtin", delegated.builtin, o)
    /\ cycPc' = "finish"
    /\ UNCHANGED <<net, delegated, srcEnabled, mqVars, pgVars, ddVars, bsVars, cfVars, runVars>>

\* The rest of the cycle: the artifact is written and the event is handed
\* to the publisher, whose send_message runs with it.
CycleFinish ==
    /\ cycPc = "finish"
    /\ \E writeOk \in BOOLEAN, r \in {SendMessage(mq, env) : env \in SendEnvs} :
          LET c == FinishCycle(cyc, writeOk)
          IN /\ cyc' = c
             /\ cycPc' = IF c.propagated THEN "crashed" ELSE "idle"
             /\ IF c.events # <<>>
                THEN /\ mq' = r.h
                     /\ mqOpened' = (mqOpened \/ r.log.connects > 0)
                ELSE UNCHANGED <<mq, mqOpened>>
    /\ UNCHANGED <<net, delegated, srcEnabled, mqCfgEnabled, mqNext, mqLast, mqSendCount, mqFailed, pgVars, ddVars, bsVars, cfVars, runVars>>

CycleInit ==
    /\ net \in [rotate_before_request : BOOLEAN, rotate_after_failure : BOOLEAN]
    /\ delegated \in [hn : BOOLEAN, builtin : BOOLEAN]
    /\ srcEnabled \in [hn : BOOLEAN, builtin : BOOLEAN]
    /\ delegated.hn => ~srcEnabled.hn
    /\ delegated.builtin => ~srcEnabled.builtin
    /\ cycPc = "idle"
    /\ cyc = NewCycle("none")

(***************************************************************************)
(* HNHiringCollector._deduplicate_jobs                                     *)
(***************************************************************************)

\* Bound: the number of jobs in the list given to _deduplicate_jobs.
MaxJobs == 3

\* job["link"]: the href of the first link of the post, which may be empty,
\* or None when the post has no link (hn_filter.py:29-30).
JobLinks == {NoneVal, "", "u1", "u2"}

\* job["date_posted"]: None, or the day parsed from the post (hn_filter.py:33-38).
DatesPosted == {None, Some(1), Some(2), Some(3)}

\* The jobs HNFilter.search returns, restricted to the keys that
\* _deduplicate_jobs reads.
RawJobs == [link : JobLinks, date_posted : DatesPosted]

\* The truth value of a link: None and "" are false.
Truthy(link) == link # NoneVal /\ link # ""

\* deduped.get(link): the position of the entry stored under the link, 0
\* when there is none.  A dict holds at most one entry for a key.
IndexOf(deduped, link) ==
    LET at == {i \in 1..Len(deduped) : deduped[i].link = link}
    IN IF at = {} THEN 0 ELSE CHOOSE i \in at : TRUE

\* A loop body without the elif branch: a dated duplicate does not replace
\* an undated entry.
DedupStepNoElif(deduped, job) ==
    IF ~Truthy(job.link) THEN deduped
    ELSE LET i == IndexOf(deduped, job.link)
         IN IF i = 0 THEN Append(deduped, job)
            ELSE IF IsSome(job.date_posted) /\ IsSome(deduped[i].date_posted)
                    /\ Get(job.date_posted) > Get(deduped[i].date_posted)
            THEN [deduped EXCEPT ![i] = job]
            ELSE deduped

\* A loop body whose date comparison is reversed: the older of two dated
\* duplicates is kept.
DedupStepOlder(deduped, job) ==
    IF ~Truthy(job.link) THEN deduped
    ELSE LET i == IndexOf(deduped, job.link)
         IN IF i = 0 THEN Append(deduped, job)
            ELSE IF IsSome(job.date_posted) /\ IsSome(deduped[i].date_posted)
            THEN IF Get(job.date_posted) < Get(deduped[i].date_posted)
                 THEN [deduped EXCEPT ![i] = job]
                 ELSE deduped
            ELSE IF IsSome(job.date_posted)
            THEN [deduped EXCEPT ![i] = job]
            ELSE deduped

\* A loop body without the check of the link: jobs without a link are
\* stored under their link like the others.
DedupStepKeepUrlLess(deduped, job) ==
    LET i == IndexOf(deduped, job.link)
    IN IF i = 0 THEN Append(deduped, job)
       ELSE IF IsSome(job.date_posted) /\ IsSome(deduped[i].date_posted)
       THEN IF Get(job.date_posted) > Get(deduped[i].date_posted)
            THEN [deduped EXCEPT ![i] = job]
            ELSE deduped
       ELSE IF IsSome(job.date_posted)
       THEN [deduped EXCEPT ![i] = job]
       ELSE deduped

\* The body of the loop of _deduplicate_jobs (lines 72-86) for one job.
\* deduped is the dict as the sequence of its values: a new key is added at
\* the end, and storing under an existing key keeps the key's position.
DedupStep(deduped, job) ==
    IF ~Truthy(job.link) THEN deduped
    ELSE LET i == IndexOf(deduped, job.link)
         IN IF i = 0 THEN Append(deduped, job)
            ELSE IF IsSome(job.date_posted) /\ IsSome(deduped[i].date_posted)
            THEN IF Get(job.date_posted) > Get(deduped[i].date_posted)
                 THEN [deduped EXCEPT ![i] = job]
                 ELSE deduped
            ELSE IF IsSome(job.date_posted)
            THEN [deduped EXCEPT ![i] = job]
            ELSE deduped

\* for job in jobs, from the dict built so far
RECURSIVE DedupLoop(_, _)
DedupLoop(jobs, deduped) ==
    IF jobs = <<>> THEN deduped
    ELSE DedupLoop(Tail(jobs), DedupStep(deduped, Head(jobs)))

\* A loop that starts at the second job.
DeduplicateJobsFromSecond(jobs) ==
    IF jobs = <<>> THEN <<>> ELSE DedupLoop(Tail(jobs), <<>>)

\* HNHiringCollector._deduplicate_jobs: list(deduped.values())
DeduplicateJobs(jobs) == DedupLoop(jobs, <<>>)

\* scrape calls _deduplicate_jobs on the jobs of HNFilter.search.
DedupFirstCall ==
    /\ ddPc = "input"
    /\ ddOnce' = DeduplicateJobs(ddJobs)
    /\ ddPc' = "once"
    /\ UNCHANGED <<ddJobs, ddTwice, mqVars, cycVars, pgVars, bsVars, cfVars, runVars>>

\* _deduplicate_jobs called on the list it returned.
DedupSecondCall ==
    /\ ddPc = "once"
    /\ ddTwice' = DeduplicateJobs(ddOnce)
    /\ ddPc' = "twice"
    /\ UNCHANGED <<ddJobs, ddOnce, mqVars, cycVars, pgVars, bsVars, cfVars, runVars>>

DedupInit ==
    /\ ddJobs \in SeqsUpTo(RawJobs, MaxJobs)
    /\ ddPc = "input"
    /\ ddOnce = <<>>
    /\ ddTwice = <<>>

(***************************************************************************)
(* BuiltinJobsCollector.scrape: the loops over keywords and listings       *)
(***************************************************************************)

\* Bound: the number of listings in the jobs_meta of one keyword.
MaxMetas == 2

\* The resolved keywords of a run.
Keywords == <<"kw1", "kw2">>

\* A listing: its url, and whether fetch_and_parse of its detail page
\* returns (or raises).  A listing without url is never fetched.
Metas ==
    [url : {"u1", "u2"}, detail_ok : BOOLEAN]
        \cup [url : {NoneVal, ""}, detail_ok : {TRUE}]

\* A loop body that marks the url of a failed detail fetch as seen.
ScrapeMetaFailureSeen(st, meta) ==
    IF ~Truthy(meta.url) \/ meta.url \in st.seen_urls THEN st
    ELSE IF ~meta.detail_ok
    THEN [st EXCEPT !.fetched = Append(@, meta.url),
                    !.seen_urls = @ \cup {meta.url}]
    ELSE [st EXCEPT !.fetched = Append(@, meta.url),
                    !.records = Append(@, [site |-> "builtin", job_url |-> meta.url]),
                    !.seen_urls = @ \cup {meta.url}]

\* A loop body that does not look at seen_urls.
ScrapeMetaNoSeenCheck(st, meta) ==
    IF ~Truthy(meta.url) THEN st
    ELSE IF ~meta.detail_ok
    THEN [st EXCEPT !.fetched = Append(@, meta.url)]
    ELSE [st EXCEPT !.fetched = Append(@, meta.url),
                    !.records = Append(@, [site |-> "builtin", job_url |-> meta.url]),
                    !.seen_urls = @ \cup {meta.url}]

\* The body of the loop over jobs_meta (lines 556-577), with total_limit
\* and per_keyword_limit not configured: a listing with no url or a url in
\* seen_urls is skipped; a listing whose detail fetch raises is skipped;
\* else its record is appended and its url added to seen_urls.
ScrapeMeta(st, meta) ==
    IF ~Truthy(meta.url) \/ meta.url \in st.seen_urls THEN st
    ELSE IF ~meta.detail_ok
    THEN [st EXCEPT !.fetched = Append(@, meta.url)]
    ELSE [st EXCEPT !.fetched = Append(@, meta.url),
                    !.records = Append(@, [site |-> "builtin", job_url |-> meta.url]),
                    !.seen_urls = @ \cup {meta.url}]

\* for meta in jobs_meta
RECURSIVE ScrapeMetas(_, _)
ScrapeMetas(jobs_meta, st) ==
    IF jobs_meta = <<>> THEN st
    ELSE ScrapeMetas(Tail(jobs_meta), ScrapeMeta(st, Head(jobs_meta)))

\* What collect_job_urls_until_cutoff does for each keyword, in order
\* (lines 544-545): it raises, or it returns the keyword's jobs_meta.
CollectOutcomes(metas_by_keyword, fails) ==
    [k \in 1..Len(metas_by_keyword) |->
        [keyword |-> Keywords[k], raises |-> k \in fails, jobs_meta |-> metas_by_keyword[k]]]

\* A loop without the try around the collection: the exception of a
\* keyword leaves scrape.
RECURSIVE ScrapeKeywordsUncaught(_, _)
ScrapeKeywordsUncaught(outcomes, st) ==
    IF outcomes = <<>> THEN st
    ELSE IF Head(outcomes).raises
    THEN [st EXCEPT !.raised = TRUE]
    ELSE ScrapeKeywordsUncaught(Tail(outcomes), ScrapeMetas(Head(outcomes).jobs_meta, st))

\* for keyword in keywords (lines 525-584): a collection that raises is
\* logged and the loop goes on with the next keyword (lines 546-548), as it
\* does after an empty jobs_meta (lines 550-552).
RECURSIVE ScrapeKeywords(_, _)
ScrapeKeywords(outcomes, st) ==
    IF outcomes = <<>> THEN st
    ELSE IF Head(outcomes).raises
    THEN ScrapeKeywords(Tail(outcomes), [st EXCEPT !.logged = Append(@, Head(outcomes).keyword)])
    ELSE ScrapeKeywords(Tail(outcomes), ScrapeMetas(Head(outcomes).jobs_meta, st))

\* records = [], seen_urls = set() (lines 517-518)
ScrapeStart == [records |-> <<>>, seen_urls |-> {}, fetched |-> <<>>, logged |-> <<>>, raised |-> FALSE]

\* scrape, for a collector that is enabled and has keywords.
BuiltinScrape ==
    /\ bsPc = "start"
    /\ LET st == ScrapeKeywords(CollectOutcomes(bsJobsMeta, bsCollectFails), ScrapeStart)
       IN /\ bsRecords' = st.records
          /\ bsSeen' = st.seen_urls
          /\ bsFetched' = st.fetched
          /\ bsLogged' = st.logged
          /\ bsRaised' = st.raised
    /\ bsPc' = "done"
    /\ UNCHANGED <<bsJobsMeta, bsCollectFails, mqVars, cycVars, pgVars, ddVars, cfVars, runVars>>

\* A collection that raises returns no jobs_meta.
ScrapeInit ==
    /\ bsJobsMeta \in [1..Len(Keywords) -> SeqsUpTo(Metas, MaxMetas)]
    /\ bsCollectFails \in SUBSET (1..Len(Keywords))
    /\ \A k \in bsCollectFails : bsJobsMeta[k] = <<>>
    /\ bsPc = "start"
    /\ bsRecords = <<>>
    /\ bsSeen = {}
    /\ bsFetched = <<>>
    /\ bsLogged = <<>>
    /\ bsRaised = FALSE

ScrapeIdle ==
    /\ bsJobsMeta = <<>>
    /\ bsCollectFails = {}
    /\ bsPc = "done"
    /\ bsRecords = <<>>
    /\ bsSeen = {}
    /\ bsFetched = <<>>
    /\ bsLogged = <<>>
    /\ bsRaised = FALSE

(***************************************************************************)
(* ConfigManager: _load_config_recursive and _merge_dicts                  *)
(***************************************************************************)

\* JSON values.  A string is a path or URL, held as its segments.
NullVal == [kind |-> "null"]
IntVal(n) == [kind |-> "int", val |-> n]
StrVal(s) == [kind |-> "str", str |-> s]
ListVal(q) == [kind |-> "list", items |-> q]
DictVal(d) == [kind |-> "dict", entries |-> d]

\* A dict is a function from its keys to its values; {} is the function
\* with no key.
EmptyDict == <<>>

\* A path string: whether it starts with "/", and its segments.
PathStr(abs, parts) == [abs |-> abs, parts |-> parts]

\* ""
EmptyStr == PathStr(FALSE, <<>>)

\* The truth value of a JSON value in "if inherits:" and "if schema:".
IsTruthy(v) ==
    \/ v.kind = "str" /\ v.str # EmptyStr
    \/ v.kind = "int" /\ v.val # 0
    \/ v.kind = "list" /\ v.items # <<>>
    \/ v.kind = "dict" /\ v.entries # EmptyDict

\* isinstance(v, dict)
IsDict(v) == v.kind = "dict"

\* Path.resolve() on the segments of an absolute path: "." is dropped and
\* ".." drops the segment before it.  (Symbolic links are not modelled.)
RECURSIVE Normalize(_, _)
Normalize(parts, acc) ==
    IF parts = <<>> THEN acc
    ELSE IF Head(parts) = "." THEN Normalize(Tail(parts), acc)
    ELSE IF Head(parts) = ".."
    THEN Normalize(Tail(parts), IF acc = <<>> THEN acc ELSE SubSeq(acc, 1, Len(acc) - 1))
    ELSE Normalize(Tail(parts), Append(acc, Head(parts)))

\* resolved_path.parent
Parent(path) == SubSeq(path, 1, Len(path) - 1)

\* Lines 86-88: Path(inherits), made absolute against the directory of the
\* inheriting document unless it is absolute, and resolved.
InheritPath(resolved_path, inherits) ==
    Normalize(IF inherits.abs THEN inherits.parts
              ELSE Parent(resolved_path) \o inherits.parts, <<>>)

\* The directory of the configuration documents and their resolved paths.
ConfigDir == <<"etc">>
DocNames == {"a.json", "b.json", "c.json"}
DocPath(name) == ConfigDir \o <<name>>
DocPaths == {DocPath(n) : n \in DocNames}

\* self.config_path, resolved
ConfigPath == DocPath("a.json")

\* What a document's "inherits" can hold: the name of a document, plain,
\* with a leading "./", through "..", or absolute; a file that does not
\* exist; the empty string.
InheritsChoices ==
    {EmptyStr,
     PathStr(FALSE, <<".", "a.json">>),
     PathStr(FALSE, <<"b.json">>),
     PathStr(TRUE, <<"etc", "b.json">>),
     PathStr(FALSE, <<"..", "etc", "c.json">>),
     PathStr(FALSE, <<"missing.json">>)}

\* "$schema" of a document
SchemaUrl == PathStr(FALSE, <<"config.schema.json">>)

\* The sections of a document besides "inherits".  The values of the
\* document numbered i are built from i, so that a value of the resolved
\* configuration tells the document it came from.
Bodies(i) ==
    {EmptyDict,
     ("$schema" :> StrVal(SchemaUrl)) @@ ("k" :> IntVal(i)),
     ("k" :> ListVal(<<i>>)),
     ("k" :> DictVal(("p" :> IntVal(i)))),
     ("$schema" :> StrVal(SchemaUrl)) @@ ("j" :> IntVal(i))
         @@ ("k" :> DictVal(("q" :> IntVal(i)))),
     ("k" :> DictVal(("p" :> ListVal(<<i>>)) @@ ("q" :> DictVal(("r" :> IntVal(i))))))}

\* The number a document builds its values from: 1 for the leaf a.json.
DocNumber(path) ==
    IF path = DocPath("a.json") THEN 1
    ELSE IF path = DocPath("b.json") THEN 2 ELSE 3

\* json.load(f) of a document: a body, with or without "inherits".
Documents(path) ==
    Bodies(DocNumber(path)) \cup
    {("inherits" :> StrVal(inh)) @@ b : inh \in InheritsChoices, b \in Bodies(DocNumber(path))}

\* A document that is not JSON: json.load(f) raises JSONDecodeError.
Malformed == [not_json |-> TRUE]

\* data.pop(key, None)
Popped(data, key) == IF key \in DOMAIN data THEN data[key] ELSE NullVal

\* data after data.pop(key, None) for each of the keys
Without(data, keys) == [key \in DOMAIN data \ keys |-> data[key]]

\* A merge that appends the child's array to the base's array.
RECURSIVE MergeDictsAppendLists(_, _)
MergeDictsAppendLists(base, override) ==
    [key \in DOMAIN base \cup DOMAIN override |->
        IF key \notin DOMAIN override THEN base[key]
        ELSE IF key \in DOMAIN base /\ IsDict(override[key]) /\ IsDict(base[key])
        THEN DictVal(MergeDictsAppendLists(base[key].entries, override[key].entries))
        ELSE IF key \in DOMAIN base /\ override[key].kind = "list" /\ base[key].kind = "list"
        THEN ListVal(base[key].items \o override[key].items)
        ELSE override[key]]

\* A merge of the top level only: the child's map replaces the base's map.
MergeDictsShallow(base, override) ==
    [key \in DOMAIN base \cup DOMAIN override |->
        IF key \in DOMAIN override THEN override[key] ELSE base[key]]

\* ConfigManager._merge_dicts: a copy of base in which every key of
\* override holds override's value, or, when both values are dicts, their
\* merge.
RECURSIVE MergeDicts(_, _)
MergeDicts(base, override) ==
    [key \in DOMAIN base \cup DOMAIN override |->
        IF key \notin DOMAIN override THEN base[key]
        ELSE IF key \in DOMAIN base /\ IsDict(override[key]) /\ IsDict(base[key])
        THEN DictVal(MergeDicts(base[key].entries, override[key].entries))
        ELSE override[key]]

\* A call that does not look its path up in seen.
LoadDocumentNoSeenCheck(path, seen, files) ==
    IF path \notin DOMAIN files
    THEN [raised |-> "FileNotFoundError", seen |-> seen \cup {path},
          data |-> EmptyDict, inherits |-> NullVal]
    ELSE IF files[path] = Malformed
    THEN [raised |-> "JSONDecodeError", seen |-> seen \cup {path},
          data |-> EmptyDict, inherits |-> NullVal]
    ELSE [raised |-> "none", seen |-> seen \cup {path},
          data |-> Without(files[path], {"inherits", "$schema"}),
          inherits |-> Popped(files[path], "inherits")]

\* A call that pops "inherits" and leaves "$schema" in data.
LoadDocumentKeepSchema(path, seen, files) ==
    IF path \in seen
    THEN [raised |-> "ValueError", seen |-> seen, data |-> EmptyDict, inherits |-> NullVal]
    ELSE IF path \notin DOMAIN files
    THEN [raised |-> "FileNotFoundError", seen |-> seen \cup {path},
          data |-> EmptyDict, inherits |-> NullVal]
    ELSE IF files[path] = Malformed
    THEN [raised |-> "JSONDecodeError", seen |-> seen \cup {path},
          data |-> EmptyDict, inherits |-> NullVal]
    ELSE [raised |-> "none", seen |-> seen \cup {path},
          data |-> Without(files[path], {"inherits"}),
          inherits |-> Popped(files[path], "inherits")]

\* _load_config_recursive up to line 81, for a resolved path: the circular
\* inheritance check, seen.add, the read of the document, and the two pops.
\*   raised  "ValueError": Circular config inheritance detected;
\*           "FileNotFoundError": open() found no file;
\*           "JSONDecodeError": json.load found no JSON document
LoadDocument(path, seen, files) ==
    IF path \in seen
    THEN [raised |-> "ValueError", seen |-> seen, data |-> EmptyDict, inherits |-> NullVal]
    ELSE IF path \notin DOMAIN files
    THEN [raised |-> "FileNotFoundError", seen |-> seen \cup {path},
          data |-> EmptyDict, inherits |-> NullVal]
    ELSE IF files[path] = Malformed
    THEN [raised |-> "JSONDecodeError", seen |-> seen \cup {path},
          data |-> EmptyDict, inherits |-> NullVal]
    ELSE [raised |-> "none", seen |-> seen \cup {path},
          data |-> Without(files[path], {"inherits", "$schema"}),
          inherits |-> Popped(files[path], "inherits")]

\* A call of _load_config_recursive starts (lines 70-91): it raises, or
\* calls itself for the document it inherits from, or has base_config = {}.
ConfigLoad ==
    /\ cfPc = "load"
    /\ LET r == LoadDocument(cfPath, cfSeen, cfFiles)
       IN /\ cfSeen' = r.seen
          /\ IF r.raised # "none"
             THEN /\ cfPc' = "raised"
                  /\ cfError' = r.raised
                  /\ UNCHANGED <<cfPath, cfStack, cfBase>>
             ELSE /\ cfStack' = Append(cfStack, [path |-> cfPath, data |-> r.data])
                  /\ cfError' = cfError
                  /\ IF IsTruthy(r.inherits)
                     THEN /\ cfPath' = InheritPath(cfPath, r.inherits.str)
                          /\ cfPc' = "load"
                          /\ cfBase' = cfBase
                     ELSE /\ cfPath' = cfPath
                          /\ cfPc' = "merge"
                          /\ cfBase' = EmptyDict
    /\ UNCHANGED <<cfFiles, mqVars, cycVars, pgVars, ddVars, bsVars, runVars>>

\* The innermost waiting call gets its base_config and returns
\* _merge_dicts(base_config, data) (lines 93-94).
ConfigReturn ==
    /\ cfPc = "merge"
    /\ cfStack # <<>>
    /\ cfBase' = MergeDicts(cfBase, cfStack[Len(cfStack)].data)
    /\ cfStack' = SubSeq(cfStack, 1, Len(cfStack) - 1)
    /\ cfPc' = IF Len(cfStack) = 1 THEN "done" ELSE "merge"
    /\ UNCHANGED <<cfFiles, cfPath, cfSeen, cfError, mqVars, cycVars, pgVars, ddVars, bsVars, runVars>>

\* load_config calls _load_config_recursive(self.config_path): seen is a
\* new set.
ConfigInit ==
    /\ \E a \in Documents(DocPath("a.json")), b \in Documents(DocPath("b.json")),
          c \in Documents(DocPath("c.json")) :
          cfFiles = (DocPath("a.json") :> a) @@ (DocPath("b.json") :> b)
                        @@ (DocPath("c.json") :> c)
    /\ cfPc = "load"
    /\ cfPath = ConfigPath
    /\ cfSeen = {}
    /\ cfStack = <<>>
    /\ cfBase = EmptyDict
    /\ cfError = "none"

(***************************************************************************)
(* main and setup_scheduler                                                *)
(***************************************************************************)

\* Bounds: the hours a run is followed for, and the cycles it starts.
MaxClock == 3
MaxCycles == 2

\* No file at a path.
Absent == [absent |-> TRUE]

\* What can be on disk at the path of a configuration document when the
\* process starts: nothing, a file that is not JSON, or a document with or
\* without "inherits".
StartupDocuments ==
    {Absent, Malformed, EmptyDict} \cup
    {("inherits" :> StrVal(inh)) : inh \in InheritsChoices \ {EmptyStr}}

\* The file system with document d at path, or with no file there.
FileAt(path, d) == IF d = Absent THEN EmptyDict ELSE (path :> d)

\* args.run_now and args.no_schedule
CliArgs == [run_now : BOOLEAN, no_schedule : BOOLEAN]

\* The hour field of cron_schedule.schedule: "*/n", digits, or anything else.
CronHours ==
    {[form |-> "every", n |-> 1], [form |-> "every", n |-> 2],
     [form |-> "at", n |-> 1], [form |-> "other", n |-> 0]}

\* cron_schedule of the resolved configuration
CronConfigs == [enabled : BOOLEAN, hour : CronHours]

\* schedule's next_run of a job at time now: now + n hours for
\* every(n).hours, the next time of day n:00 after now for every().day.at.
NextRun(hour, now) ==
    IF hour.form = "every" THEN now + hour.n
    ELSE hour.n + HoursPerDay * ((now - hour.n) \div HoursPerDay + 1)

\* setup_scheduler: no job when scheduling is disabled or the hour field
\* has neither form; else run_scraping_cycle is registered as a job.
SetupScheduler(cron, now) ==
    IF ~cron.enabled \/ cron.hour.form = "other" THEN None
    ELSE Some([hour |-> cron.hour, next_run |-> NextRun(cron.hour, now)])

\* Lines 564-565 and 559-561: the scheduler loop is entered only when
\* scheduling is enabled and neither --run-now nor --no-schedule is given.
ScheduleLoop(args, cron) == ~args.run_now /\ cron.enabled /\ ~args.no_schedule

\* What one run_scraping_cycle does, for the outcomes of its two collectors
\* and of save_to_csv: the collectors it invokes, the events it hands to
\* the publisher.
CycleRun(hn, builtin, writeOk) ==
    LET c0 == NewCycle("none")
        c1 == CollectStep(c0, "hnhiring", delegated.hn, hn)
        c2 == IF c1.error = "none" THEN CollectStep(c1, "builtin", delegated.builtin, builtin)
              ELSE c1
    IN FinishCycle(c2, writeOk)

CycleRuns ==
    {CycleRun(hn, builtin, writeOk) :
        hn \in {o \in CollectorOutcomes("hnhiring") : IsEmpty(o.df)},
        builtin \in {o \in CollectorOutcomes("builtin") : IsEmpty(o.df)},
        writeOk \in BOOLEAN}

\* A main in which a configuration that failed to load is replaced by the
\* empty configuration.
MainConfigFailedCarriesOn ==
    /\ mnPc = "config"
    /\ cfPc = "raised"
    /\ mnPc' = "run_once"
    /\ UNCHANGED <<mnArgs, mnCron, mnJob, mnClock, mnCaller, mnInFlight, mnCycles, mnCalled,
                   mnEvents, mnExit, rtVars, wkVars, thVars, trVars, hnVars, lbVars, mqVars, cycVars, pgVars, ddVars, bsVars, cfVars>>

\* ConfigManager(config_path=args.config) fails (line 552): load_config
\* turns FileNotFoundError and JSONDecodeError into sys.exit(1) (lines
\* 63-68), and any other exception reaches main's "except Exception"
\* (line 576).  Either way the finally clause finds no scraper and main
\* ends.
MainConfigFailed ==
    /\ mnPc = "config"
    /\ cfPc = "raised"
    /\ mnPc' = "exited"
    /\ mnExit' = IF cfError \in {"FileNotFoundError", "JSONDecodeError"}
                 THEN "sys.exit(1)" ELSE "error logged"
    /\ UNCHANGED <<mnArgs, mnCron, mnJob, mnClock, mnCaller, mnInFlight, mnCycles, mnCalled,
                   mnEvents, rtVars, wkVars, thVars, trVars, hnVars, lbVars, mqVars, cycVars, pgVars, ddVars, bsVars, cfVars>>

\* The configuration is loaded (lines 552-567): the scraper is built,
\* setup_scheduler registers the job, and main goes on to the single cycle
\* or to the scheduler loop.
MainConfigLoaded ==
    /\ mnPc = "config"
    /\ cfPc = "done"
    /\ \E cron \in CronConfigs :
          /\ mnCron' = cron
          /\ mnJob' = SetupScheduler(cron, mnClock)
          /\ mnPc' = IF ScheduleLoop(mnArgs, cron) THEN "poll" ELSE "run_once"
    /\ UNCHANGED <<mnArgs, mnClock, mnCaller, mnInFlight, mnCycles, mnCalled, mnEvents, mnExit,
                   rtVars, wkVars, thVars, trVars, hnVars, lbVars, mqVars, cycVars, pgVars, ddVars, bsVars, cfVars>>

\* scraper.run_scraping_cycle() of line 558 or 566 is called.
MainRunOnce ==
    /\ mnPc = "run_once"
    /\ mnPc' = "cycle"
    /\ mnCaller' = "main"
    /\ mnInFlight' = mnInFlight + 1
    /\ mnCycles' = mnCycles + 1
    /\ UNCHANGED <<mnArgs, mnCron, mnJob, mnClock, mnCalled, mnEvents, mnExit,
                   rtVars, wkVars, thVars, trVars, hnVars, lbVars, mqVars, cycVars, pgVars, ddVars, bsVars, cfVars>>

\* A run_pending that starts a due job on a thread of its own and returns.
MainRunPendingDetached ==
    /\ mnPc = "poll"
    /\ mnCycles < MaxCycles
    /\ IF IsSome(mnJob) /\ Get(mnJob).next_run <= mnClock
       THEN /\ mnPc' = "sleep"
            /\ mnCaller' = "scheduler"
            /\ mnInFlight' = mnInFlight + 1
            /\ mnCycles' = mnCycles + 1
       ELSE /\ mnPc' = "sleep"
            /\ UNCHANGED <<mnCaller, mnInFlight, mnCycles>>
    /\ UNCHANGED <<mnArgs, mnCron, mnJob, mnClock, mnCalled, mnEvents, mnExit,
                   rtVars, wkVars, thVars, trVars, hnVars, lbVars, mqVars, cycVars, pgVars, ddVars, bsVars, cfVars>>

\* schedule.run_pending() (line 571): a job whose next_run has come is
\* run, by a plain call of run_scraping_cycle on this thread; else
\* run_pending returns and main sleeps.
MainRunPending ==
    /\ mnPc = "poll"
    /\ mnCycles < MaxCycles
    /\ IF IsSome(mnJob) /\ Get(mnJob).next_run <= mnClock
       THEN /\ mnPc' = "cycle"
            /\ mnCaller' = "scheduler"
            /\ mnInFlight' = mnInFlight + 1
            /\ mnCycles' = mnCycles + 1
       ELSE /\ mnPc' = "sleep"
            /\ UNCHANGED <<mnCaller, mnInFlight, mnCycles>>
    /\ UNCHANGED <<mnArgs, mnCron, mnJob, mnClock, mnCalled, mnEvents, mnExit,
                   rtVars, wkVars, thVars, trVars, hnVars, lbVars, mqVars, cycVars, pgVars, ddVars, bsVars, cfVars>>

\* An hour passes while a cycle is in flight.
MainCycleTick ==
    /\ mnInFlight > 0
    /\ mnClock < MaxClock
    /\ mnClock' = mnClock + 1
    /\ UNCHANGED <<mnArgs, mnPc, mnCron, mnJob, mnCaller, mnInFlight, mnCycles, mnCalled,
                   mnEvents, mnExit, rtVars, wkVars, thVars, trVars, hnVars, lbVars, mqVars, cycVars, pgVars, ddVars, bsVars, cfVars>>

\* run_scraping_cycle returns.  To main: main returns (lines 559, 567).
\* To the scheduler: the job's next_run is set from the time of the
\* return, run_pending returns and main sleeps.
MainCycleReturn ==
    /\ mnInFlight > 0
    /\ \E c \in CycleRuns :
          /\ mnCalled' = mnCalled \cup c.called
          /\ mnEvents' = mnEvents \o [i \in 1..Len(c.events) |-> c.events[i].type]
    /\ mnInFlight' = mnInFlight - 1
    /\ IF mnCaller = "main"
       THEN /\ mnPc' = "exited"
            /\ mnExit' = "return"
            /\ mnJob' = mnJob
       ELSE /\ mnPc' = "sleep"
            /\ mnExit' = mnExit
            /\ mnJob' = Some([Get(mnJob) EXCEPT !.next_run = NextRun(Get(mnJob).hour, mnClock)])
    /\ UNCHANGED <<mnArgs, mnCron, mnClock, mnCaller, mnCycles,
                   rtVars, wkVars, thVars, trVars, hnVars, lbVars, mqVars, cycVars, pgVars, ddVars, bsVars, cfVars>>

\* time.sleep(60) (line 572) returns; the hour may have turned.
MainSleep ==
    /\ mnPc = "sleep"
    /\ mnPc' = "poll"
    /\ \E dt \in {0, 1} :
          /\ mnClock + dt <= MaxClock
          /\ mnClock' = mnClock + dt
    /\ UNCHANGED <<mnArgs, mnCron, mnJob, mnCaller, mnInFlight, mnCycles, mnCalled, mnEvents,
                   mnExit, rtVars, wkVars, thVars, trVars, hnVars, lbVars, mqVars, cycVars, pgVars, ddVars, bsVars, cfVars>>

\* main starts: ConfigManager.__init__ calls load_config on the document
\* named by --config.
MainInit ==
    /\ mnArgs \in CliArgs
    /\ mnPc = "config"
    /\ mnCron = [enabled |-> FALSE, hour |-> [form |-> "other", n |-> 0]]
    /\ mnJob = None
    /\ mnClock = 0
    /\ mnCaller = "main"
    /\ mnInFlight = 0
    /\ mnCycles = 0
    /\ mnCalled = {}
    /\ mnEvents = <<>>
    /\ mnExit = "none"

\* The file system main starts on.
StartupConfigInit ==
    /\ \E a \in StartupDocuments, b \in StartupDocuments, c \in StartupDocuments :
          cfFiles = FileAt(DocPath("a.json"), a) @@ FileAt(DocPath("b.json"), b)
                        @@ FileAt(DocPath("c.json"), c)
    /\ cfPc = "load"
    /\ cfPath = ConfigPath
    /\ cfSeen = {}
    /\ cfStack = <<>>
    /\ cfBase = EmptyDict
    /\ cfError = "none"

MainIdle ==
    /\ mnArgs = [run_now |-> FALSE, no_schedule |-> FALSE]
    /\ mnPc = "exited"
    /\ mnCron = [enabled |-> FALSE, hour |-> [form |-> "other", n |-> 0]]
    /\ mnJob = None
    /\ mnClock = 0
    /\ mnCaller = "main"
    /\ mnInFlight = 0
    /\ mnCycles = 0
    /\ mnCalled = {}
    /\ mnEvents = <<>>
    /\ mnExit = "none"

(***************************************************************************)
(* NetworkManager.rotate_ip                                                *)
(***************************************************************************)

\* Bound: the rotate_ip calls made on one manager.
MaxRotations == 3

\* How subprocess.run(["/bin/bash", script], check=True, timeout=...) ends:
\* the script exits with code 0 in time, exits with another code, is still
\* running at the timeout, or cannot be run at all.
RunOutcomes == {"exit 0", "exit 1", "timeout", "os error"}

\* NetworkManager.__init__: script_path is None when vpn_rotation_script is
\* missing or empty.
NetworkManagerInit(script) == [script_path |-> script, script_available_logged |-> FALSE]

NoRotation == [called |-> FALSE, returned |-> FALSE, raised |-> FALSE, executed |-> FALSE,
               outcome |-> "none", logged_missing |-> 0]

\* The exception subprocess.run raises for an outcome: CalledProcessError
\* for an exit code other than 0 when check is set, TimeoutExpired, or the
\* OSError of a script that cannot be run.
ScriptException(outcome, check) ==
    IF outcome = "exit 1" /\ check THEN "CalledProcessError"
    ELSE IF outcome = "timeout" THEN "TimeoutExpired"
    ELSE IF outcome = "os error" THEN "OSError"
    ELSE "none"

\* The except clauses of rotate_ip (lines 236-248); the three exceptions
\* are subclasses of Exception.
RotateHandlers == {"CalledProcessError", "TimeoutExpired", "Exception"}
IsCaught(exc) == exc \in RotateHandlers \/ "Exception" \in RotateHandlers

\* A rotate_ip that runs the script without check=True.
RotateIpUnchecked(m, exists, outcome) ==
    IF ~IsSome(m.script_path) \/ ~exists
    THEN [m |-> [m EXCEPT !.script_available_logged = TRUE],
          log |-> [NoRotation EXCEPT !.called = TRUE,
                       !.logged_missing = IF m.script_available_logged THEN 0 ELSE 1]]
    ELSE [m |-> m,
          log |-> LET exc == ScriptException(outcome, FALSE)
                  IN [NoRotation EXCEPT !.called = TRUE, !.executed = TRUE, !.outcome = outcome,
                          !.returned = (exc = "none"),
                          !.raised = (exc # "none" /\ ~IsCaught(exc))]]

\* A rotate_ip that never sets _script_available_logged.
RotateIpLogsEveryCall(m, exists, outcome) ==
    IF ~IsSome(m.script_path) \/ ~exists
    THEN [m |-> m,
          log |-> [NoRotation EXCEPT !.called = TRUE,
                       !.logged_missing = IF m.script_available_logged THEN 0 ELSE 1]]
    ELSE [m |-> m,
          log |-> LET exc == ScriptException(outcome, TRUE)
                  IN [NoRotation EXCEPT !.called = TRUE, !.executed = TRUE, !.outcome = outcome,
                          !.returned = (exc = "none"),
                          !.raised = (exc # "none" /\ ~IsCaught(exc))]]

\* NetworkManager.rotate_ip (lines 206-250).  Without a script path, or
\* with a path where no file exists, it logs once per manager and returns
\* False.  Else it runs the script: True after an exit with code 0;
\* CalledProcessError, TimeoutExpired and any other Exception are logged
\* and the call returns False.
\*   logged_missing  the "not configured" / "not found" lines this call logged
RotateIp(m, exists, outcome) ==
    IF ~IsSome(m.script_path) \/ ~exists
    THEN [m |-> [m EXCEPT !.script_available_logged = TRUE],
          log |-> [NoRotation EXCEPT !.called = TRUE,
                       !.logged_missing = IF m.script_available_logged THEN 0 ELSE 1]]
    ELSE [m |-> m,
          log |-> LET exc == ScriptException(outcome, TRUE)
                  IN [NoRotation EXCEPT !.called = TRUE, !.executed = TRUE, !.outcome = outcome,
                          !.returned = (exc = "none"),
                          !.raised = (exc # "none" /\ ~IsCaught(exc))]]

\* One rotate_ip call on the manager.
RotateIpCall ==
    /\ Len(rtLog) < MaxRotations
    /\ \E outcome \in RunOutcomes :
          LET r == RotateIp(rtManager, rtExists, outcome)
          IN /\ rtManager' = r.m
             /\ rtLog' = Append(rtLog, [r.log EXCEPT !.outcome =
                                            IF r.log.executed THEN outcome ELSE "none"])
    /\ UNCHANGED <<rtExists, mnVars, wkVars, thVars, trVars, hnVars, lbVars, mqVars, cycVars, pgVars, ddVars, bsVars, cfVars>>

\* The script file is created or removed between two calls.
RotateScriptChange ==
    /\ IsSome(rtManager.script_path)
    /\ rtExists' = ~rtExists
    /\ UNCHANGED <<rtManager, rtLog, mnVars, wkVars, thVars, trVars, hnVars, lbVars, mqVars, cycVars, pgVars, ddVars, bsVars, cfVars>>

RotateInit ==
    /\ \E script \in {None, Some("vpn.sh")} :
          /\ rtManager = NetworkManagerInit(script)
          /\ rtExists \in (IF IsSome(script) THEN BOOLEAN ELSE {FALSE})
    /\ rtLog = <<>>

RotateIdle ==
    /\ rtManager = NetworkManagerInit(None)
    /\ rtExists = FALSE
    /\ rtLog = <<>>

(***************************************************************************)
(* BuiltinCollector.collect_job_urls_until_cutoff: the two strategies      *)
(***************************************************************************)

\* Bound: the pages one collection goes through.
MaxWork == 3

\* How _collect_job_urls_blocking ends: it returns a list of jobs, or
\* raises; KeyboardInterrupt is a BaseException that is not an Exception.
BlockingOutcomes ==
    {[exc |-> "none", res |-> r] : r \in SeqsUpTo({"u1", "u2"}, 2)} \cup
    {[exc |-> x, res |-> <<>>] : x \in {"PlaywrightError", "KeyboardInterrupt"}}

\* Lines 227-251: without a running event loop the collector runs on the
\* calling thread; else the worker thread is created and started and the
\* caller waits in t.join().
CollectStart ==
    /\ wkPc = "start"
    /\ IF wkLoopRunning
       THEN wkPc' = "join" /\ wkThread' = "running"
       ELSE wkPc' = "direct" /\ wkThread' = wkThread
    /\ UNCHANGED <<wkLoopRunning, wkOutcome, wkProgress, wkResult, wkExc, wkReturn,
                   mnVars, rtVars, thVars, trVars, hnVars, lbVars, mqVars, cycVars, pgVars, ddVars, bsVars, cfVars>>

\* _collect_job_urls_blocking goes through a page, on the thread it runs on.
BlockingStep ==
    /\ wkPc = "direct" \/ wkThread = "running"
    /\ wkProgress < MaxWork
    /\ wkProgress' = wkProgress + 1
    /\ UNCHANGED <<wkLoopRunning, wkOutcome, wkPc, wkThread, wkResult, wkExc, wkReturn,
                   mnVars, rtVars, thVars, trVars, hnVars, lbVars, mqVars, cycVars, pgVars, ddVars, bsVars, cfVars>>

\* Line 235: the direct call returns its list or lets its exception through.
DirectFinish ==
    /\ wkPc = "direct"
    /\ wkPc' = IF wkOutcome.exc = "none" THEN "returned" ELSE "raised"
    /\ wkReturn' = wkOutcome
    /\ UNCHANGED <<wkLoopRunning, wkOutcome, wkThread, wkProgress, wkResult, wkExc,
                   mnVars, rtVars, thVars, trVars, hnVars, lbVars, mqVars, cycVars, pgVars, ddVars, bsVars, cfVars>>

\* target (lines 242-247) ends: the list goes to result_container, or the
\* BaseException to exc_container, and the thread terminates.
WorkerFinish ==
    /\ wkThread = "running"
    /\ wkThread' = "finished"
    /\ IF wkOutcome.exc = "none"
       THEN wkResult' = Append(wkResult, wkOutcome.res) /\ wkExc' = wkExc
       ELSE wkExc' = Append(wkExc, wkOutcome.exc) /\ wkResult' = wkResult
    /\ UNCHANGED <<wkLoopRunning, wkOutcome, wkPc, wkProgress, wkReturn,
                   mnVars, rtVars, thVars, trVars, hnVars, lbVars, mqVars, cycVars, pgVars, ddVars, bsVars, cfVars>>

\* What follows t.join() (lines 253-256).
AfterJoin(result_container, exc_container) ==
    IF exc_container # <<>> THEN [exc |-> exc_container[1], res |-> <<>>]
    ELSE [exc |-> "none",
          res |-> IF result_container # <<>> THEN result_container[1] ELSE <<>>]

\* A caller that goes on without waiting for the thread.
CollectJoinNoWait ==
    /\ wkPc = "join"
    /\ LET r == AfterJoin(wkResult, wkExc)
       IN /\ wkReturn' = r
          /\ wkPc' = IF r.exc = "none" THEN "returned" ELSE "raised"
    /\ UNCHANGED <<wkLoopRunning, wkOutcome, wkThread, wkProgress, wkResult, wkExc,
                   mnVars, rtVars, thVars, trVars, hnVars, lbVars, mqVars, cycVars, pgVars, ddVars, bsVars, cfVars>>

\* t.join() returns, which it does once the thread has terminated, and the
\* caller raises exc_container[0] or returns result_container[0].
CollectJoin ==
    /\ wkPc = "join"
    /\ wkThread = "finished"
    /\ LET r == AfterJoin(wkResult, wkExc)
       IN /\ wkReturn' = r
          /\ wkPc' = IF r.exc = "none" THEN "returned" ELSE "raised"
    /\ UNCHANGED <<wkLoopRunning, wkOutcome, wkThread, wkProgress, wkResult, wkExc,
                   mnVars, rtVars, thVars, trVars, hnVars, lbVars, mqVars, cycVars, pgVars, ddVars, bsVars, cfVars>>

WorkerInit ==
    /\ wkLoopRunning \in BOOLEAN
    /\ wkOutcome \in BlockingOutcomes
    /\ wkPc = "start"
    /\ wkThread = "none"
    /\ wkProgress = 0
    /\ wkResult = <<>>
    /\ wkExc = <<>>
    /\ wkReturn = [exc |-> "none", res |-> <<>>]

WorkerIdle ==
    /\ wkLoopRunning = FALSE
    /\ wkOutcome = [exc |-> "none", res |-> <<>>]
    /\ wkPc = "returned"
    /\ wkThread = "none"
    /\ wkProgress = 0
    /\ wkResult = <<>>
    /\ wkExc = <<>>
    /\ wkReturn = [exc |-> "none", res |-> <<>>]

(***************************************************************************)
(* JobSpyScraper._compute_title_hash on pairs of titles                    *)
(***************************************************************************)

\* Bound: the whitespace characters before and after a title.
MaxPad == 1

\* n times the character ch
Repeat(ch, n) == [i \in 1..n |-> ch]

\* Titles around the length that is hashed: up to MaxPad blanks, a run of
\* "a" of HashPrefixLen characters or a little less, a tail that may hold
\* whitespace, and up to MaxPad blanks.
TitleTails == {<<>>, <<"b">>, <<"c">>, <<" ", "b">>, <<"\t", "c">>}
TitleStrings ==
    {Repeat(" ", lead) \o Repeat("a", n) \o tail \o Repeat(" ", trail) :
        lead \in 0..MaxPad, trail \in 0..MaxPad,
        n \in {0, HashPrefixLen - 2, HashPrefixLen - 1, HashPrefixLen},
        tail \in TitleTails}

\* What _compute_title_hash is called with: a string, None, or NaN.
Titles == {Some(s) : s \in TitleStrings \cup {<<"\t", " ">>}} \cup {None, NaN}

\* Two calls of _compute_title_hash.
HashTitles ==
    /\ thPc = "input"
    /\ thHashes' = <<ComputeTitleHash(thTitles[1]), ComputeTitleHash(thTitles[2])>>
    /\ thPc' = "hashed"
    /\ UNCHANGED <<thTitles, mnVars, rtVars, wkVars, trVars, hnVars, lbVars, mqVars, cycVars, pgVars, ddVars, bsVars, cfVars>>

HashInit ==
    /\ thTitles \in Titles \X Titles
    /\ thPc = "input"
    /\ thHashes = <<None, None>>

HashIdle ==
    /\ thTitles = <<None, None>>
    /\ thPc = "hashed"
    /\ thHashes = <<None, None>>

(***************************************************************************)
(* BuiltinTransformer and HNTransformer                                    *)
(***************************************************************************)

\* Python values besides NullVal and ListVal: a str, as its words and the
\* separators between them; a bool; a datetime, as its day.
Text(words) == [kind |-> "text", text |-> words]
Bool(b) == [kind |-> "bool", val |-> b]
DateTime(day) == [kind |-> "datetime", day |-> day]

\* The truth value of a Python value.
PyTruthy(v) ==
    \/ v.kind = "text" /\ v.text # <<>>
    \/ v.kind = "list" /\ v.items # <<>>
    \/ v.kind = "bool" /\ v.val
    \/ v.kind = "datetime"

\* a or b
PyOr(a, b) == IF PyTruthy(a) THEN a ELSE b

\* d.get(key)
DictGet(d, key) == IF key \in DOMAIN d THEN d[key] ELSE NullVal

\* sep.join(items) for a list of str
RECURSIVE JoinWords(_, _)
JoinWords(sep, items) ==
    IF items = <<>> THEN <<>>
    ELSE IF Len(items) = 1 THEN items[1].text
    ELSE items[1].text \o <<sep>> \o JoinWords(sep, Tail(items))
Join(sep, items) == Text(JoinWords(sep, items))

\* "remote" in s.lower()
HasRemote(words) == \E i \in 1..Len(words) : LowerWord(words[i]) \in {"remote", "remotely"}

\* datetime.isoformat()
IsoFormat(d) == Text(<<"2024-01-0" \o ToString(d.day)>>)

\* str(uuid.uuid4()); that the value is new for every record is not modelled.
Uuid == Text(<<"uuid4">>)

\* BuiltinTransformer.columns
BuiltinColumns ==
    <<"id", "site", "job_url", "job_url_direct", "title", "company",
      "location", "date_posted", "job_type", "salary_source", "interval",
      "min_amount", "max_amount", "currency", "is_remote", "job_level",
      "job_function", "listing_type", "emails", "description",
      "company_industry", "company_url", "company_logo",
      "company_url_direct", "company_addresses", "company_num_employees",
      "company_revenue", "company_description", "skills",
      "experience_range", "company_rating", "company_reviews_count",
      "vacancy_count", "work_from_home_type", "title_hash">>

\* HNTransformer.columns
HNColumns ==
    <<"id", "site", "job_url", "job_url_direct", "title", "company",
      "location", "date_posted", "job_type", "salary_source", "interval",
      "min_amount", "max_amount", "currency", "is_remote", "job_level",
      "job_function", "listing_type", "emails", "description",
      "company_industry", "company_url", "company_logo",
      "company_url_direct", "company_addresses", "company_num_employees",
      "company_revenue", "company_description", "skills",
      "experience_range", "company_rating", "company_reviews_count",
      "vacancy_count", "work_from_home_type", "title_hash">>

\* BuiltinTransformer.transform
BuiltinTransform(job) ==
    LET posted_at == DictGet(job, "posted_at")
        date_posted == IF posted_at.kind = "datetime" THEN IsoFormat(posted_at)
                       ELSE IF posted_at.kind = "text" THEN posted_at
                       ELSE NullVal
        location == PyOr(DictGet(job, "location"), DictGet(job, "posted_location"))
        location_str == IF location.kind = "list" THEN Join(", ", location.items) ELSE location
        tags == DictGet(job, "tags")
        job_function == IF tags.kind = "list" THEN Join(", ", tags.items) ELSE tags
        skills == DictGet(job, "skills")
        skills_value == IF skills.kind = "list" THEN Join(", ", skills.items) ELSE skills
        description == DictGet(job, "description")
        description_value == IF description.kind = "list" THEN Join("\\n", description.items)
                             ELSE description
        seniority == DictGet(job, "seniority")
        search_keyword == DictGet(job, "search_keyword")
        is_remote == IF HasRemote(PyOr(location_str, Text(<<>>)).text) THEN Bool(TRUE)
                     ELSE IF PyTruthy(search_keyword) /\ HasRemote(search_keyword.text)
                     THEN Bool(TRUE)
                     ELSE NullVal
    IN ("id" :> Uuid) @@
       ("site" :> Text(<<"builtin">>)) @@
       ("job_url" :> DictGet(job, "url")) @@
       ("job_url_direct" :> DictGet(job, "url")) @@
       ("title" :> DictGet(job, "title")) @@
       ("company" :> DictGet(job, "company")) @@
       ("location" :> location_str) @@
       ("date_posted" :> date_posted) @@
       ("job_type" :> NullVal) @@
       ("salary_source" :> IF PyTruthy(DictGet(job, "salary")) THEN Text(<<"builtin">>) ELSE NullVal) @@
       ("interval" :> NullVal) @@
       ("min_amount" :> NullVal) @@
       ("max_amount" :> NullVal) @@
       ("currency" :> NullVal) @@
       ("is_remote" :> is_remote) @@
       ("job_level" :> seniority) @@
       ("job_function" :> job_function) @@
       ("listing_type" :> Text(<<"job_board">>)) @@
       ("emails" :> NullVal) @@
       ("description" :> description_value) @@
       ("company_industry" :> NullVal) @@
       ("company_url" :> NullVal) @@
       ("company_logo" :> NullVal) @@
       ("company_url_direct" :> NullVal) @@
       ("company_addresses" :> location_str) @@
       ("company_num_employees" :> NullVal) @@
       ("company_revenue" :> NullVal) @@
       ("company_description" :> NullVal) @@
       ("skills" :> skills_value) @@
       ("experience_range" :> seniority) @@
       ("company_rating" :> NullVal) @@
       ("company_reviews_count" :> NullVal) @@
       ("vacancy_count" :> NullVal) @@
       ("work_from_home_type" :> IF PyTruthy(is_remote) THEN Text(<<"remote">>) ELSE NullVal) @@
       ("title_hash" :> NullVal)

\* A transform that leaves out the fields the source has no value for.
HNTransformSparse(hn_job) ==
    LET got == DictGet(hn_job, "date_posted")
        date_posted == IF got # NullVal THEN IsoFormat(got) ELSE got
        title == PyOr(DictGet(hn_job, "title"), Text(<<>>))
    IN ("id" :> Uuid) @@
       ("site" :> Text(<<"hnhiring">>)) @@
       ("job_url" :> DictGet(hn_job, "link")) @@
       ("title" :> DictGet(hn_job, "title")) @@
       ("date_posted" :> date_posted) @@
       ("is_remote" :> Bool(HasRemote(title.text)))

\* HNTransformer.transform
HNTransform(hn_job) ==
    LET got == DictGet(hn_job, "date_posted")
        date_posted == IF got # NullVal THEN IsoFormat(got) ELSE got
        title == PyOr(DictGet(hn_job, "title"), Text(<<>>))
    IN ("id" :> Uuid) @@
       ("site" :> Text(<<"hnhiring">>)) @@
       ("job_url" :> DictGet(hn_job, "link")) @@
       ("job_url_direct" :> DictGet(hn_job, "link")) @@
       ("title" :> DictGet(hn_job, "title")) @@
       ("company" :> NullVal) @@
       ("location" :> NullVal) @@
       ("date_posted" :> date_posted) @@
       ("job_type" :> NullVal) @@
       ("salary_source" :> IF PyTruthy(DictGet(hn_job, "salary")) THEN Text(<<"hnhiring">>) ELSE NullVal) @@
       ("interval" :> NullVal) @@
       ("min_amount" :> NullVal) @@
       ("max_amount" :> NullVal) @@
       ("currency" :> NullVal) @@
       ("is_remote" :> Bool(HasRemote(title.text))) @@
       ("job_level" :> NullVal) @@
       ("job_function" :> NullVal) @@
       ("listing_type" :> NullVal) @@
       ("emails" :> NullVal) @@
       ("description" :> NullVal) @@
       ("company_industry" :> NullVal) @@
       ("company_url" :> NullVal) @@
       ("company_logo" :> NullVal) @@
       ("company_url_direct" :> NullVal) @@
       ("company_addresses" :> NullVal) @@
       ("company_num_employees" :> NullVal) @@
       ("company_revenue" :> NullVal) @@
       ("company_description" :> NullVal) @@
       ("skills" :> NullVal) @@
       ("experience_range" :> NullVal) @@
       ("company_rating" :> NullVal) @@
       ("company_reviews_count" :> NullVal) @@
       ("vacancy_count" :> NullVal) @@
       ("work_from_home_type" :> NullVal) @@
       ("title_hash" :> NullVal)

\* A dict with value v at key, or without the key.
Entry(key, v) == IF v = Absent THEN EmptyDict ELSE (key :> v)

\* A keyword is a sequence of words and of the blanks between them.
\* re.sub(r"\bremote\b", "", keyword, flags=re.IGNORECASE)
IsOtherWord(w) == LowerWord(w) # "remote"
RemoveRemoteWord(keyword) == SelectSeq(keyword, IsOtherWord)

\* re.sub(r"\s+", " ", cleaned)
RECURSIVE CollapseSpaces(_)
CollapseSpaces(cleaned) ==
    IF Len(cleaned) < 2 THEN cleaned
    ELSE IF cleaned[1] \in Whitespace /\ cleaned[2] \in Whitespace
    THEN CollapseSpaces(<<" ">> \o SubSeq(cleaned, 3, Len(cleaned)))
    ELSE <<IF cleaned[1] \in Whitespace THEN " " ELSE cleaned[1]>> \o CollapseSpaces(Tail(cleaned))

\* BuiltinJobsCollector._normalize_keyword
NormalizeKeyword(keyword) == Strip(CollapseSpaces(RemoveRemoteWord(keyword)))

\* normalized.lower()
LowerKeyword(keyword) == [i \in 1..Len(keyword) |-> LowerWord(keyword[i])]

\* The loop of _resolve_keywords over the candidates (lines 485-495).
RECURSIVE ResolveLoop(_, _, _)
ResolveLoop(candidates, seen, resolved) ==
    IF candidates = <<>> THEN resolved
    ELSE LET kw == Head(candidates)
             normalized == NormalizeKeyword(kw)
             key == LowerKeyword(normalized)
         IN IF kw = <<>> \/ normalized = <<>> \/ key \in seen
            THEN ResolveLoop(Tail(candidates), seen, resolved)
            ELSE ResolveLoop(Tail(candidates), seen \cup {key}, Append(resolved, normalized))

\* BuiltinJobsCollector._resolve_keywords
ResolveKeywords(raw_keywords, fallback_keywords) ==
    ResolveLoop(IF raw_keywords # <<>> THEN raw_keywords ELSE fallback_keywords, {}, <<>>)

\* The keyword settings of a run: settings["keywords"] and the fallback.
KeywordSettings ==
    {[keywords |-> <<<<"python">>>>, fallback |-> <<>>],
     [keywords |-> <<<<"remote", " ", "python">>>>, fallback |-> <<<<"go">>>>],
     [keywords |-> <<<<"Remote">>, <<"remotely", " ", "hiring">>>>, fallback |-> <<>>],
     [keywords |-> <<<<"python">>, <<"Python", " ", " ", "REMOTE">>>>, fallback |-> <<>>],
     [keywords |-> <<>>, fallback |-> <<<<"senior", " ", "remote", " ", "python">>>>],
     [keywords |-> <<>>, fallback |-> <<>>]}

\* self.url_builder.keyword of the collector of each resolved keyword, which
\* every listing carries as search_keyword (lines 187-193, 529-533).
SearchKeywords(raw_keywords, fallback_keywords) ==
    LET resolved == ResolveKeywords(raw_keywords, fallback_keywords)
    IN {Text(resolved[k]) : k \in 1..Len(resolved)}

\* The dicts BuiltinTransformer.transform is given: the listing's fields
\* merged with the detail page's, any of them missing; search_keyword is
\* one of the resolved keywords of the run.
BuiltinRawJobs(raw_keywords, fallback_keywords) ==
    {Entry("url", url) @@ Entry("title", title) @@ Entry("company", company)
        @@ Entry("location", location) @@ Entry("posted_location", posted_location)
        @@ Entry("posted_at", posted_at) @@ Entry("tags", tags) @@ Entry("skills", skills)
        @@ Entry("description", description) @@ Entry("seniority", seniority)
        @@ Entry("search_keyword", search_keyword) @@ Entry("salary", salary) :
        url \in {Absent, Text(<<"u1">>)},
        title \in {Absent, Text(<<"Engineer">>)},
        company \in {Absent, Text(<<"Acme">>)},
        location \in {Absent, Text(<<"Remote">>), ListVal(<<Text(<<"NYC">>), Text(<<"REMOTE">>)>>)},
        posted_location \in {Absent, Text(<<"Austin">>)},
        posted_at \in {Absent, DateTime(1), Text(<<"2", " ", "days", " ", "ago">>)},
        tags \in {Absent, ListVal(<<Text(<<"python">>), Text(<<"go">>)>>)},
        skills \in {Absent, ListVal(<<Text(<<"sql">>)>>)},
        description \in {Absent, ListVal(<<Text(<<"About">>), Text(<<"Apply">>)>>)},
        seniority \in {Absent, Text(<<"Senior">>)},
        search_keyword \in {Absent} \cup SearchKeywords(raw_keywords, fallback_keywords),
        salary \in {Absent, Text(<<"100k">>)}}

\* The dicts HNTransformer.transform is given.
HNRawJobs ==
    {Entry("title", title) @@ Entry("link", link) @@ Entry("date_posted", date_posted)
        @@ Entry("salary", salary) :
        title \in {Absent, NullVal, Text(<<"Remote", " ", "dev">>), Text(<<"dev">>)},
        link \in {Absent, NullVal, Text(<<"u1">>)},
        date_posted \in {Absent, NullVal, DateTime(1)},
        salary \in {Absent, NullVal, Text(<<"$120k">>)}}

\* One transform call of the site's transformer.
Transform ==
    /\ trPc = "input"
    /\ trRecord' = IF trSite = "builtin" THEN BuiltinTransform(trJob) ELSE HNTransform(trJob)
    /\ trPc' = "done"
    /\ UNCHANGED <<trSite, trJob, trKeywords, trFallback, mnVars, rtVars, wkVars, thVars, hnVars, lbVars, mqVars, cycVars, pgVars, ddVars, bsVars, cfVars>>

TransformInit ==
    /\ \/ /\ trSite = "builtin"
          /\ \E s \in KeywordSettings :
                /\ trKeywords = s.keywords
                /\ trFallback = s.fallback
                /\ trJob \in BuiltinRawJobs(s.keywords, s.fallback)
       \/ /\ trSite = "hnhiring"
          /\ trKeywords = <<>>
          /\ trFallback = <<>>
          /\ trJob \in HNRawJobs
    /\ trPc = "input"
    /\ trRecord = EmptyDict

TransformIdle ==
    /\ trSite = "builtin"
    /\ trKeywords = <<>>
    /\ trFallback = <<>>
    /\ trJob = EmptyDict
    /\ trPc = "done"
    /\ trRecord = EmptyDict

(***************************************************************************)
(* HNFilter.search and HNHiringCollector.scrape                            *)
(***************************************************************************)

\* Bound: the number of jobs on one category page.
MaxHNJobs == 1

\* datetime.utcnow().date(), as a day number.
Today == 5

\* The categories of the settings.
Categories == <<"/locations/remote", "/technologies/python">>

\* The jobs of a category page, restricted to the keys search and
\* _deduplicate_jobs read: date_posted is None when the page has no date or
\* one that strptime rejects, salary is None or the text of the salary tag.
HNJobs ==
    [link : {"u1"}, date_posted : {None, Some(2), Some(3)},
     salary : {None, Some(<<"D", "O", "E">>), Some(<<"$", "2", "k">>)}]
        \cup {[link |-> NoneVal, date_posted |-> None, salary |-> None]}

\* What requests.get does for a category: it raises (no connection), or it
\* returns a response, whose page lists jobs when the status is 200.
Responses ==
    [raises : {TRUE}, status_code : {0}, jobs : {<<>>}]
        \cup [raises : {FALSE}, status_code : {500}, jobs : {<<>>}]
        \cup [raises : {FALSE}, status_code : {200}, jobs : SeqsUpTo(HNJobs, MaxHNJobs)]

\* HNFilter.fetch_category_jobs
FetchCategoryJobs(resp) ==
    IF resp.raises THEN [raised |-> "ConnectionError", jobs |-> <<>>]
    ELSE IF resp.status_code # 200 THEN [raised |-> "none", jobs |-> <<>>]
    ELSE [raised |-> "none", jobs |-> resp.jobs]

\* c.isdigit(), and int("".join(salary_digits))
DigitChars == <<"0", "1", "2", "3", "4", "5", "6", "7", "8", "9">>
IsDigit(c) == \E i \in 1..Len(DigitChars) : DigitChars[i] = c
DigitValue(c) == (CHOOSE i \in 1..Len(DigitChars) : DigitChars[i] = c) - 1
RECURSIVE ToInt(_, _)
ToInt(digits, acc) ==
    IF digits = <<>> THEN acc
    ELSE ToInt(Tail(digits), 10 * acc + DigitValue(Head(digits)))

\* The truth value of a setting: None and 0 are false.
SettingTruthy(v) == v.kind = "int" /\ v.val # 0

\* The salary filter of search for one job (filter.py:81-90,
\* hn_filter.py:68-74).  A salary without a digit makes the job skipped in
\* jobspy/hnhiring/filter.py and makes int("") raise in hn_filter.py.
SalaryFilter(module, min_salary, max_salary, st, job) ==
    IF IsSome(job.salary) /\ Get(job.salary) # <<>>
    THEN LET salary_digits == SelectSeq(Get(job.salary), IsDigit)
         IN IF salary_digits = <<>>
            THEN IF module = "hn_filter" THEN [st EXCEPT !.raised = "ValueError"] ELSE st
            ELSE LET salary_num == ToInt(salary_digits, 0)
                 IN IF SettingTruthy(min_salary) /\ salary_num < min_salary.val THEN st
                    ELSE IF SettingTruthy(max_salary) /\ salary_num > max_salary.val THEN st
                    ELSE [st EXCEPT !.all_jobs = Append(@, job)]
    ELSE [st EXCEPT !.all_jobs = Append(@, job)]

\* A loop body that takes a job without date for one older than the cutoff.
SearchJobNullIsOld(module, days, min_salary, max_salary, st, at, job) ==
    IF SettingTruthy(days)
          /\ (~IsSome(job.date_posted) \/ Get(job.date_posted) < Today - days.val)
    THEN [st EXCEPT !.cut = @ \cup {at}]
    ELSE SalaryFilter(module, min_salary, max_salary, st, job)

\* The body of the loop over the jobs of a category (filter.py:77-90,
\* hn_filter.py:64-75) for the job at position at.  st.cut is history: the
\* positions of the jobs that the days cutoff excluded.
SearchJob(module, days, min_salary, max_salary, st, at, job) ==
    IF SettingTruthy(days) /\ IsSome(job.date_posted)
          /\ Get(job.date_posted) < Today - days.val
    THEN [st EXCEPT !.cut = @ \cup {at}]
    ELSE SalaryFilter(module, min_salary, max_salary, st, job)

\* for job in jobs, from the job at position j; an exception ends the loop.
RECURSIVE SearchJobs(_, _, _, _, _, _, _, _)
SearchJobs(module, days, min_salary, max_salary, st, c, j, jobs) ==
    IF j > Len(jobs) \/ st.raised # "none" THEN st
    ELSE SearchJobs(module, days, min_salary, max_salary,
                    SearchJob(module, days, min_salary, max_salary, st, <<c, j>>, jobs[j]),
                    c, j + 1, jobs)

\* for category_url in categories, from the category at position c.
RECURSIVE SearchCategories(_, _, _, _, _, _, _)
SearchCategories(module, days, min_salary, max_salary, st, c, responses) ==
    IF c > Len(responses) \/ st.raised # "none" THEN st
    ELSE LET fetched == FetchCategoryJobs(responses[c])
         IN IF fetched.raised # "none" THEN [st EXCEPT !.raised = fetched.raised]
            ELSE SearchCategories(module, days, min_salary, max_salary,
                     SearchJobs(module, days, min_salary, max_salary, st, c, 1, fetched.jobs),
                     c + 1, responses)

\* Before search is called.
NoSearch == [raised |-> "none", all_jobs |-> <<>>, cut |-> {}]

\* HNFilter.search: what it raised, and all_jobs.
Search(module, days, min_salary, max_salary, responses) ==
    SearchCategories(module, days, min_salary, max_salary, NoSearch, 1, responses)

\* A job as the dict of Python values HNTransformer.transform reads.
JobDict(job) ==
    ("title" :> Text(<<"dev">>))
        @@ ("link" :> IF job.link = NoneVal THEN NullVal ELSE Text(<<job.link>>))
        @@ ("date_posted" :> IF IsSome(job.date_posted) THEN DateTime(Get(job.date_posted))
                             ELSE NullVal)
        @@ ("salary" :> IF IsSome(job.salary) THEN Text(Get(job.salary)) ELSE NullVal)

\* pd.DataFrame(columns=self.transformer.columns)
EmptyHNFrame == [columns |-> HNColumns, rows |-> <<>>]

\* The exceptions that "except Exception" catches, of those search raises.
ScrapeCaught == {"ConnectionError", "ValueError"}

\* What scrape returns or raises (hnhiring_scraper.py:25-67), given what
\* search did when it was called.
HNScrapeResult(enabled, categories, found) ==
    IF ~enabled \/ categories = <<>> THEN [raised |-> "none", df |-> EmptyHNFrame]
    ELSE IF found.raised \in ScrapeCaught THEN [raised |-> "none", df |-> EmptyHNFrame]
    ELSE IF found.raised # "none" THEN [raised |-> found.raised, df |-> EmptyHNFrame]
    ELSE IF found.all_jobs = <<>> THEN [raised |-> "none", df |-> EmptyHNFrame]
    ELSE LET deduped_jobs == DeduplicateJobs(found.all_jobs)
         IN [raised |-> "none",
             df |-> [columns |-> HNColumns,
                     rows |-> [k \in 1..Len(deduped_jobs) |->
                                  HNTransform(JobDict(deduped_jobs[k]))]]]

\* HNHiringCollector.scrape
HNScrape ==
    /\ hnPc = "start"
    /\ LET found == IF hnEnabled /\ hnCategories # <<>>
                    THEN Search(hnModule, hnDays, hnMinSalary, hnMaxSalary, hnResponses)
                    ELSE NoSearch
           result == HNScrapeResult(hnEnabled, hnCategories, found)
       IN /\ hnSearch' = found
          /\ hnResult' = result.df
          /\ hnRaised' = result.raised
    /\ hnPc' = "done"
    /\ UNCHANGED <<hnModule, hnEnabled, hnCategories, hnResponses, hnDays, hnMinSalary, hnMaxSalary>>
    /\ UNCHANGED <<trVars, mnVars, rtVars, wkVars, thVars, lbVars, mqVars, cycVars, pgVars, ddVars, bsVars, cfVars>>

\* The module HNFilter comes from, the settings, and a response for every
\* category that is fetched.
HNInit ==
    /\ hnModule \in {"hn_filter", "jobspy.hnhiring.filter"}
    /\ hnEnabled \in BOOLEAN
    /\ hnCategories \in {<<>>, Categories}
    /\ hnDays \in {NullVal, IntVal(0), IntVal(2)}
    /\ \E window \in {<<NullVal, NullVal>>, <<IntVal(3), NullVal>>, <<NullVal, IntVal(1)>>} :
          hnMinSalary = window[1] /\ hnMaxSalary = window[2]
    /\ hnResponses \in [1..Len(hnCategories) -> Responses]
    /\ ~hnEnabled => \A c \in 1..Len(hnResponses) : hnResponses[c].raises
    /\ hnPc = "start"
    /\ hnSearch = NoSearch
    /\ hnResult = EmptyHNFrame
    /\ hnRaised = "none"

HNIdle ==
    /\ hnModule = "hn_filter"
    /\ hnEnabled = FALSE
    /\ hnCategories = <<>>
    /\ hnDays = NullVal
    /\ hnMinSalary = NullVal
    /\ hnMaxSalary = NullVal
    /\ hnResponses = <<>>
    /\ hnPc = "done"
    /\ hnSearch = NoSearch
    /\ hnResult = EmptyHNFrame
    /\ hnRaised = "none"

(***************************************************************************)
(* BuiltinCollector._parse_posted_text on the label of a link              *)
(***************************************************************************)

\* Bound: the number of tokens of a posted label.
MaxTokens == 4

\* The tokens of the labels.
LabelTokens ==
    {Num(2), NumPlus(3), Word("Just"), Word("Hours"), Word("hr"), Word("Days"),
     Word("Yesterday"), Word("Soon")}

\* The labels found near a link: any text of these tokens.
Labels == SeqsUpTo(LabelTokens, MaxTokens)

\* posted_at of a link with the label, and whether the link is excluded by
\* the cutoff (lines 169-177).
ParseLabel ==
    /\ lbPc = "input"
    /\ LET link == [href |-> "/job/a", posted_text |-> Some(lbText)]
           posted_at == PostedAt(link, lbNow)
       IN /\ lbParsed' = posted_at
          /\ lbExcluded' = BeforeCutoff(Cutoff([max_age_hours |-> lbMaxAge]), posted_at)
    /\ lbPc' = "done"
    /\ UNCHANGED <<lbText, lbNow, lbMaxAge>>
    /\ UNCHANGED <<trVars, hnVars, mnVars, rtVars, wkVars, thVars, mqVars, cycVars, pgVars, ddVars, bsVars, cfVars>>

\* A label, the hour at which it is read, and max_age_hours.
LabelInit ==
    /\ lbText \in Labels
    /\ lbNow \in 0..MaxElapsed
    /\ lbMaxAge \in MaxAgeChoices
    /\ lbPc = "input"
    /\ lbParsed = None
    /\ lbExcluded = FALSE

LabelIdle ==
    /\ lbText = <<>>
    /\ lbNow = 0
    /\ lbMaxAge = 0
    /\ lbPc = "done"
    /\ lbParsed = None
    /\ lbExcluded = FALSE

\* The other components at rest.
MQIdle ==
    /\ mqCfgEnabled = FALSE
    /\ mq = ActiveMQHandlerInit(FALSE, FALSE).h
    /\ mqNext = 1
    /\ mqLast = NoCall
    /\ mqSendCount = [i \in CallIds |-> 0]
    /\ mqFailed = {}
    /\ mqOpened = FALSE

CycleIdle ==
    /\ net = [rotate_before_request |-> FALSE, rotate_after_failure |-> TRUE]
    /\ delegated = [hn |-> FALSE, builtin |-> FALSE]
    /\ srcEnabled = [hn |-> TRUE, builtin |-> TRUE]
    /\ cycPc = "idle"
    /\ cyc = NewCycle("none")

PageIdle ==
    /\ pgCfg = [max_age_hours |-> 0, max_pages |-> 0, start_page |-> 1]
    /\ pgClock = 0
    /\ pgPc = "done"
    /\ pgPageNum = 1
    /\ pgAllJobs = <<>>
    /\ pgVisited = <<>>
    /\ pgLast = NoVisit

DedupIdle ==
    /\ ddJobs = <<>>
    /\ ddPc = "twice"
    /\ ddOnce = <<>>
    /\ ddTwice = <<>>

\* Both collectors at rest.
CollectorsIdle == DedupIdle /\ ScrapeIdle

\* main, and what later sections add to it, at rest.
RunIdle == MainIdle /\ RotateIdle /\ WorkerIdle /\ HashIdle /\ TransformIdle /\ HNIdle /\ LabelIdle

ConfigIdle ==
    /\ cfFiles = EmptyDict
    /\ cfPc = "done"
    /\ cfPath = ConfigPath
    /\ cfSeen = {}
    /\ cfStack = <<>>
    /\ cfBase = EmptyDict
    /\ cfError = "none"

InitMQ == MQInit /\ CycleIdle /\ PageIdle /\ CollectorsIdle /\ ConfigIdle /\ RunIdle
NextMQ == MQSendMessage \/ MQConnectionDrop
SpecMQ == InitMQ /\ [][NextMQ]_vars

InitCycle == MQInit /\ CycleInit /\ PageIdle /\ CollectorsIdle /\ ConfigIdle /\ RunIdle
NextCycle == CycleScrapeJobs \/ CycleCollectHN \/ CycleCollectBuiltin \/ CycleFinish
                \/ MQConnectionDrop
SpecCycle == InitCycle /\ [][NextCycle]_vars

InitPage == MQIdle /\ CycleIdle /\ PageInit /\ CollectorsIdle /\ ConfigIdle /\ RunIdle
NextPage == PageVisit \/ PageLimitReached \/ PageTick
SpecPage == InitPage /\ [][NextPage]_vars

InitDedup ==
    /\ MQIdle /\ CycleIdle /\ PageIdle /\ ConfigIdle
    /\ MainIdle /\ RotateIdle /\ WorkerIdle /\ HashIdle /\ TransformIdle /\ LabelIdle
    /\ \/ DedupInit /\ ScrapeIdle /\ HNIdle
       \/ DedupIdle /\ ScrapeInit /\ HNIdle
       \/ DedupIdle /\ ScrapeIdle /\ HNInit
NextDedup == DedupFirstCall \/ DedupSecondCall \/ BuiltinScrape \/ HNScrape
SpecDedup == InitDedup /\ [][NextDedup]_vars

InitConfig == MQIdle /\ CycleIdle /\ PageIdle /\ CollectorsIdle /\ ConfigInit /\ RunIdle
NextConfig == ConfigLoad \/ ConfigReturn
SpecConfig == InitConfig /\ [][NextConfig]_vars

InitMain ==
    /\ MQIdle /\ CycleIdle /\ PageIdle /\ CollectorsIdle
    /\ StartupConfigInit /\ MainInit /\ RotateIdle /\ WorkerIdle /\ HashIdle /\ TransformIdle /\ HNIdle /\ LabelIdle
NextMain == ConfigLoad \/ ConfigReturn \/ MainConfigFailed \/ MainConfigLoaded \/ MainRunOnce
               \/ MainRunPending \/ MainCycleTick \/ MainCycleReturn \/ MainSleep
SpecMain == InitMain /\ [][NextMain]_vars

InitRotate ==
    /\ MQIdle /\ CycleIdle /\ PageIdle /\ CollectorsIdle /\ ConfigIdle
    /\ MainIdle /\ RotateInit /\ WorkerIdle /\ HashIdle /\ TransformIdle /\ HNIdle /\ LabelIdle
NextRotate == RotateIpCall \/ RotateScriptChange
SpecRotate == InitRotate /\ [][NextRotate]_vars

InitWorker ==
    /\ MQIdle /\ CycleIdle /\ PageIdle /\ CollectorsIdle /\ ConfigIdle
    /\ MainIdle /\ RotateIdle /\ WorkerInit /\ HashIdle /\ TransformIdle /\ HNIdle /\ LabelIdle
NextWorker == CollectStart \/ BlockingStep \/ DirectFinish \/ WorkerFinish \/ CollectJoin
SpecWorker == InitWorker /\ [][NextWorker]_vars

InitHash ==
    /\ MQIdle /\ CycleIdle /\ PageIdle /\ CollectorsIdle /\ ConfigIdle
    /\ MainIdle /\ RotateIdle /\ WorkerIdle /\ HashInit /\ TransformIdle /\ HNIdle /\ LabelIdle
NextHash == HashTitles
SpecHash == InitHash /\ [][NextHash]_vars

InitSchema ==
    /\ MQIdle /\ CycleIdle /\ PageIdle /\ CollectorsIdle /\ ConfigIdle
    /\ MainIdle /\ RotateIdle /\ WorkerIdle /\ HashIdle /\ TransformInit /\ HNIdle /\ LabelIdle
NextSchema == Transform
SpecSchema == InitSchema /\ [][NextSchema]_vars

InitLabel ==
    /\ MQIdle /\ CycleIdle /\ PageIdle /\ CollectorsIdle /\ ConfigIdle
    /\ MainIdle /\ RotateIdle /\ WorkerIdle /\ HashIdle /\ TransformIdle /\ HNIdle /\ LabelInit
NextLabel == ParseLabel
SpecLabel == InitLabel /\ [][NextLabel]_vars

(***************************************************************************)
(* Claims about run_scraping_cycle, checked under SpecCycle                *)
(***************************************************************************)

AllRows(c) == c.jobspy.rows \o c.hn.rows \o c.builtin.rows

UrlLess(rows) == Cardinality({i \in 1..Len(rows) : rows[i].job_url = NoneVal})

ThreeNonEmptyOverlapping(c) ==
    /\ ~IsEmpty(c.jobspy) /\ ~IsEmpty(c.hn) /\ ~IsEmpty(c.builtin)
    /\ \/ (SeqUrls(c.jobspy.rows) \cap SeqUrls(c.hn.rows)) \ {NoneVal} # {}
       \/ (SeqUrls(c.jobspy.rows) \cap SeqUrls(c.builtin.rows)) \ {NoneVal} # {}
       \/ SeqUrls(c.hn.rows) \cap SeqUrls(c.builtin.rows) # {}

C2_CollectorFailureIsolated ==
    (cyc.finished /\ cyc.raised # {})
        => /\ ~cyc.propagated
           /\ cyc.error \in {"none", "write"}
           /\ ("hnhiring" \in cyc.raised => cyc.hn = EmptyFrame)
           /\ ("builtin" \in cyc.raised => cyc.builtin = EmptyFrame)
           /\ (~delegated.builtin => "builtin" \in cyc.called)
           /\ (cyc.error # "write"
                 => /\ cyc.written
                    /\ cyc.events = <<CsvReady(CsvPath, Len(cyc.artifact.rows))>>)

C2_Witness ==
    /\ cyc.finished
    /\ cyc.raised = {"hnhiring"}
    /\ ~IsEmpty(cyc.builtin)
    /\ cyc.written
    /\ LastEventType(cyc) = "csv_ready"

\* C3: when an error escapes the body of the cycle, the one event of the
\* cycle is scraping_error, nothing leaves run_scraping_cycle, and the next
\* tick can enter a new cycle.
C3_BodyErrorPublishesError ==
    (cyc.finished /\ cyc.error # "none")
        => /\ cyc.events = <<ScrapingError(cyc.error)>>
           /\ ~cyc.propagated
           /\ cycPc = "idle"
           /\ ENABLED CycleScrapeJobs

\* a cycle that ended in csv_ready right after one that ended in scraping_error
C3_Witness ==
    /\ cyc.finished
    /\ cyc.prev = "scraping_error"
    /\ cyc.error = "none"
    /\ LastEventType(cyc) = "csv_ready"

(***************************************************************************)
(* Claims about ActiveMQHandler, checked under SpecMQ                      *)
(***************************************************************************)

\* the step is a send_message call
IsSendCall == mqNext' = mqNext + 1

\* C4 (as stated): with messaging enabled in the configuration, every
\* send_message call that finds the connection absent or not alive calls
\* setup_connection before sending.
C4_ReconnectBeforeEverySend ==
    [][(IsSendCall /\ mqCfgEnabled /\ ~IsConnected(mq)) => mqLast'.reconnect]_vars

\* C5 (as stated): the call after a call whose send failed attempts the
\* delivery of its own message, reconnecting first if needed; it is not
\* skipped.
C5_NextCallAttemptsDelivery ==
    [][(IsSendCall /\ mqCfgEnabled /\ (mqNext - 1) \in mqFailed)
          => (mqLast'.sends > 0 \/ mqLast'.reconnect)]_vars

\* C6: connection.send is invoked at most once for the message of each
\* send_message call, over the whole history of calls.
C6_AtMostOnce ==
    \A i \in CallIds : mqSendCount[i] <= 1 /\ (i >= mqNext => mqSendCount[i] = 0)

\* a call whose send failed, and a later call that sent its own message
C6_Witness ==
    \E i \in mqFailed :
        /\ i + 1 < mqNext
        /\ mqSendCount[i] = 1
        /\ mqSendCount[i + 1] = 1

\* C7: with messaging disabled in the configuration no connect() is ever
\* attempted, nothing is sent, every call returns at the first check and
\* the handler stays as constructed.
C7_DisabledIsNoOp ==
    ~mqCfgEnabled
        => /\ mq = [enabled |-> FALSE, connection |-> "none"]
           /\ ~mqOpened
           /\ \A i \in CallIds : mqSendCount[i] = 0
           /\ (mqNext > 1 => mqLast.skipped /\ mqLast.connects = 0)

C7_Witness == ~mqCfgEnabled /\ mqNext > 2

(***************************************************************************)
(* Claims about the BuiltIn pagination loop, checked under SpecPage        *)
(***************************************************************************)

PageCutoff == Cutoff(pgCfg)

HasHref(link) == link.href # NoneVal

\* the links of the latest page whose parsed timestamp is older than the cutoff
OlderLinks ==
    {i \in 1..Len(pgLast.links) :
        /\ HasHref(pgLast.links[i])
        /\ BeforeCutoff(PageCutoff, PostedAt(pgLast.links[i], pgLast.now))}

\* the timestamps parsed on the latest page
ParsedOnPage ==
    {Get(PostedAt(pgLast.links[i], pgLast.now)) :
        i \in {j \in 1..Len(pgLast.links) :
                 /\ HasHref(pgLast.links[j])
                 /\ IsSome(PostedAt(pgLast.links[j], pgLast.now))}}

\* the records appended to all_jobs by the latest iteration
EmittedJobs == SubSeq(pgAllJobs, pgLast.before + 1, Len(pgAllJobs))

LoopEndedAtLastPage ==
    /\ pgPc = "done"
    /\ pgPageNum = pgLast.page_num
    /\ pgVisited[Len(pgVisited)] = pgLast.page_num

\* C8: when a link of the page is older than the configured cutoff, the
\* records emitted from the page are exactly those of the links before the
\* first such link, and the loop has ended on this page.
C8_MidPageCutoffStops ==
    (pgLast.kind = "visit" /\ OlderLinks # {})
        => LET k == MinOf(OlderLinks)
               kept == SelectSeq(SubSeq(pgLast.links, 1, k - 1), HasHref)
           IN /\ EmittedJobs = [i \in 1..Len(kept) |-> Job(kept[i], pgLast.now)]
              /\ pgLast.stop
              /\ LoopEndedAtLastPage

\* labels [2 Hours Ago, 3 Days Ago] with a 24-hour cutoff: the first record
\* is kept and only the first page is visited
C8_Witness ==
    /\ pgCfg.max_age_hours = 24
    /\ pgLast.kind = "visit"
    /\ pgLast.links = <<[href |-> "/job/a", posted_text |-> Some(TwoHoursAgo)],
                        [href |-> "/job/a", posted_text |-> Some(ThreeDaysAgo)]>>
    /\ Len(pgAllJobs) = 1
    /\ pgAllJobs[1].posted_text = Some(TwoHoursAgo)
    /\ pgVisited = <<pgCfg.start_page>>
    /\ pgPc = "done"

\* C9: a page with no job links ends the loop on that page and leaves
\* all_jobs as the earlier pages made it.
C9_EmptyPageStops ==
    /\ [](pgLast.kind = "visit" /\ pgLast.links = <<>>
            => LoopEndedAtLastPage /\ Len(pgAllJobs) = pgLast.before)
    /\ [][(pgLast'.kind = "visit" /\ pgLast'.links = <<>> /\ pgVisited' # pgVisited)
            => pgAllJobs' = pgAllJobs]_vars

\* an empty second page after a first page that gave records
C9_Witness ==
    /\ pgLast.kind = "visit"
    /\ pgLast.links = <<>>
    /\ Len(pgVisited) = 2
    /\ Len(pgAllJobs) > 0
    /\ pgPc = "done"

FinishedPageNoTrigger ==
    pgLast.kind = "visit" /\ pgLast.links # <<>> /\ ~pgLast.stop /\ IsSome(PageCutoff)

C11_AtMostMaxPages ==
    Len(pgVisited) <= (IF pgCfg.max_pages > 0 THEN pgCfg.max_pages ELSE 0)

\* C11 (amended): the number of pages navigated for one keyword never
\* exceeds max_pages when max_pages is at least 1, and never exceeds one
\* page when max_pages is zero or negative; the pages navigated are
\* start_page, start_page + 1, ... without a gap or a repeat.  The loop
\* terminates: while it runs an iteration can be taken, every iteration
\* that navigates a page either ends the loop or moves to the next page
\* number, the iteration at the page limit ends the loop, and an ended loop
\* stays ended.
C11_AtMostClampedMaxPages ==
    /\ [](/\ Len(pgVisited) <= (IF pgCfg.max_pages >= 1 THEN pgCfg.max_pages ELSE 1)
          /\ \A i \in 1..Len(pgVisited) : pgVisited[i] = pgCfg.start_page + i - 1)
    /\ [](pgPc = "loop"
            => /\ ENABLED (PageVisit \/ PageLimitReached)
               /\ pgPageNum = pgCfg.start_page + Len(pgVisited))
    /\ [][/\ pgVisited' # pgVisited
             => /\ Len(pgVisited') = Len(pgVisited) + 1
                /\ pgPc' = "done" \/ pgPageNum' = pgPageNum + 1
          /\ (pgPc = "loop" /\ pgClock' = pgClock /\ pgVisited' = pgVisited)
             => pgPc' = "done"
          /\ pgPc = "done" => pgPc' = "done"]_vars

\* max_pages = 0: one page was navigated and the page limit ended the loop
C11_Witness ==
    /\ pgCfg.max_pages = 0
    /\ Len(pgVisited) = 1
    /\ pgLast.kind = "limit"
    /\ pgPc = "done"

\* C12: with a cutoff configured, every record of all_jobs has a parsed
\* timestamp that is None or not older than the cutoff, at every point of
\* the collection and so in the list it returns.
C12_NoRecordOlderThanCutoff ==
    IsSome(PageCutoff)
        => \A i \in 1..Len(pgAllJobs) :
              \/ ~IsSome(pgAllJobs[i].posted_at)
              \/ Get(pgAllJobs[i].posted_at) >= Get(PageCutoff)

\* a collection that ended at a link older than the cutoff, after it
\* emitted a record with a timestamp and a record without one
C12_Witness ==
    /\ IsSome(PageCutoff)
    /\ pgPc = "done"
    /\ pgLast.stop
    /\ OlderLinks # {}
    /\ \E i \in 1..Len(pgAllJobs) : ~IsSome(pgAllJobs[i].posted_at)
    /\ \E i \in 1..Len(pgAllJobs) : IsSome(pgAllJobs[i].posted_at)

(***************************************************************************)
(* Claims about _deduplicate_jobs, checked under SpecDedup                 *)
(***************************************************************************)

Range(q) == {q[i] : i \in 1..Len(q)}

\* the jobs of the input stored under a link, and the dated ones among them
GroupOf(link) == {i \in 1..Len(ddJobs) : ddJobs[i].link = link}

DatedOf(link) == {i \in GroupOf(link) : IsSome(ddJobs[i].date_posted)}

\* the records of the first result that carry a link
KeptFor(link) == {i \in 1..Len(ddOnce) : ddOnce[i].link = link}

NewestOf(link) ==
    CHOOSE d \in {Get(ddJobs[i].date_posted) : i \in DatedOf(link)} :
        \A i \in DatedOf(link) : Get(ddJobs[i].date_posted) <= d

\* C13: _deduplicate_jobs applied to the list it returned gives that list
\* again, and so the same set of records.
C13_DedupIdempotent ==
    ddPc = "twice" => ddTwice = ddOnce /\ Range(ddTwice) = Range(ddOnce)

\* both calls are done on an input with a duplicate link and a job with no link
C13_Witness ==
    /\ ddPc = "twice"
    /\ Len(ddJobs) = MaxJobs
    /\ \E l \in {"u1", "u2"} : Cardinality(GroupOf(l)) >= 2
    /\ GroupOf(NoneVal) # {}
    /\ Len(ddOnce) = 1
    /\ ddTwice = ddOnce

\* C14: when the jobs of a link include exactly one with a date, next to
\* one or more without a date, the result holds the dated job for that
\* link, wherever the dated job stands among them in the input.
C14_DatedBeatsUndated ==
    ddPc # "input"
        => \A l \in {"u1", "u2"} :
              (Cardinality(GroupOf(l)) >= 2 /\ Cardinality(DatedOf(l)) = 1)
                  => \A i \in DatedOf(l) :
                        /\ Cardinality(KeptFor(l)) = 1
                        /\ \A k \in KeptFor(l) : ddOnce[k] = ddJobs[i]

\* the dated job stands between two undated jobs of the same link
C14_Witness ==
    /\ ddPc = "once"
    /\ ddJobs = <<[link |-> "u1", date_posted |-> None],
                  [link |-> "u1", date_posted |-> Some(2)],
                  [link |-> "u1", date_posted |-> None]>>
    /\ ddOnce = <<[link |-> "u1", date_posted |-> Some(2)]>>

\* C15: the result holds exactly one record for each distinct link of the
\* input (a missing or empty link is not one), and when two or more jobs of
\* a link carry a date, the kept record carries the newest of these dates.
C15_OnePerUrlNewestKept ==
    ddPc # "input"
        => /\ \A l \in {"u1", "u2"} :
                 Cardinality(KeptFor(l)) = (IF GroupOf(l) # {} THEN 1 ELSE 0)
           /\ \A k \in 1..Len(ddOnce) : ddOnce[k].link \in {"u1", "u2"}
           /\ \A l \in {"u1", "u2"} :
                 Cardinality(DatedOf(l)) >= 2
                     => \A k \in KeptFor(l) :
                           ddOnce[k].date_posted = Some(NewestOf(l))

\* three dated jobs of one link with the newest in the middle
C15_Witness ==
    /\ ddPc = "once"
    /\ ddJobs = <<[link |-> "u1", date_posted |-> Some(2)],
                  [link |-> "u1", date_posted |-> Some(3)],
                  [link |-> "u1", date_posted |-> Some(1)]>>
    /\ ddOnce = <<[link |-> "u1", date_posted |-> Some(3)]>>

\* C16: no record of the result of _deduplicate_jobs has a missing or an
\* empty link, and no record of BuiltinJobsCollector.scrape has a missing
\* or an empty job_url.
C16_UrlLessDropped ==
    /\ ddPc # "input" => \A k \in 1..Len(ddOnce) : Truthy(ddOnce[k].link)
    /\ ddPc = "twice" => \A k \in 1..Len(ddTwice) : Truthy(ddTwice[k].link)
    /\ \A k \in 1..Len(bsRecords) : Truthy(bsRecords[k].job_url)
    /\ \A k \in 1..Len(bsFetched) : Truthy(bsFetched[k])

\* an input with a job without link and a job with an empty link
C16_Witness ==
    /\ ddPc = "once"
    /\ GroupOf(NoneVal) # {}
    /\ GroupOf("") # {}
    /\ GroupOf("u1") # {}
    /\ Len(ddOnce) = 1

\* the first keyword lists a job without url, the second one an empty url
\* and a job, whose record is the only one
C16_WitnessBuiltin ==
    /\ bsPc = "done"
    /\ Len(bsJobsMeta) = 2
    /\ \E i \in 1..Len(bsJobsMeta[1]) : bsJobsMeta[1][i].url = NoneVal
    /\ \E i \in 1..Len(bsJobsMeta[2]) : bsJobsMeta[2][i].url = ""
    /\ Len(bsRecords) = 1

(***************************************************************************)
(* Claims about the configuration loader, checked under SpecConfig         *)
(***************************************************************************)

\* The inheritance chain of the documents on disk, read off the files: the
\* path of the leaf, then the path each document's "inherits" resolves to,
\* for at most n links, up to a document that inherits nothing or a path
\* that is no file.
RECURSIVE ChainFrom(_, _)
ChainFrom(path, n) ==
    IF n > 0 /\ path \in DOMAIN cfFiles /\ IsTruthy(Popped(cfFiles[path], "inherits"))
    THEN <<path>> \o ChainFrom(InheritPath(path, cfFiles[path]["inherits"].str), n - 1)
    ELSE <<path>>

Chain == ChainFrom(ConfigPath, Cardinality(DocPaths))

\* the chain comes back to a document it already went through
ChainRevisits == \E i, j \in 1..Len(Chain) : i < j /\ Chain[i] = Chain[j]

ConfigEnded == cfPc \in {"done", "raised"}

\* C17: when the inheritance chain revisits a document, the resolution
\* ends with the circular-inheritance error (a ValueError) and returns no
\* configuration, and the error is raised for no other chain.  The
\* resolution cannot go on forever: until it has ended it can take a step,
\* a call that starts either raises or adds a path to seen that was not in
\* it, a call that returns leaves one call less waiting, at most one call
\* per document is waiting, and seen never holds more than the documents
\* and one missing file.
C17_CircularInheritanceFails ==
    /\ []((ConfigEnded /\ ChainRevisits) => (cfPc = "raised" /\ cfError = "ValueError"))
    /\ [](cfError = "ValueError" => ChainRevisits)
    /\ [](~ConfigEnded => ENABLED (ConfigLoad \/ ConfigReturn))
    /\ [](/\ Len(cfStack) <= Cardinality(DocPaths)
          /\ Len(cfStack) <= Cardinality(cfSeen)
          /\ Cardinality(cfSeen) <= Cardinality(DocPaths) + 1)
    /\ [][/\ cfPc = "load"
             => \/ cfPc' = "raised"
                \/ cfSeen \subseteq cfSeen'
                     /\ Cardinality(cfSeen') = Cardinality(cfSeen) + 1
          /\ cfPc = "merge"
             => cfSeen' = cfSeen /\ Len(cfStack') = Len(cfStack) - 1]_vars

\* a.json inherits b.json, b.json inherits c.json, c.json inherits a.json:
\* the fourth call raised
C17_Witness ==
    /\ cfPc = "raised"
    /\ cfError = "ValueError"
    /\ cfSeen = DocPaths
    /\ Len(cfStack) = 3
    /\ cfPath = ConfigPath

\* a.json inherits itself, written "./a.json"
C17_WitnessSelf ==
    /\ cfPc = "raised"
    /\ cfError = "ValueError"
    /\ cfSeen = {ConfigPath}
    /\ cfFiles[ConfigPath]["inherits"] = StrVal(PathStr(FALSE, <<".", "a.json">>))

\* The key paths of the documents.
KeyPaths == {<<"j">>, <<"k">>, <<"k", "p">>, <<"k", "q">>, <<"k", "q", "r">>}

\* What a dict says about a key path: its value there; or that the path
\* cannot exist, because a value on the way is not a dict ("blocked"); or
\* nothing, because a key on the way is missing ("silent").
Silent == [found |-> "silent", val |-> NullVal]

RECURSIVE Lookup(_, _)
Lookup(d, path) ==
    IF Head(path) \notin DOMAIN d THEN Silent
    ELSE IF Len(path) = 1 THEN [found |-> "value", val |-> d[Head(path)]]
    ELSE IF IsDict(d[Head(path)]) THEN Lookup(d[Head(path)].entries, Tail(path))
    ELSE [found |-> "blocked", val |-> NullVal]

\* the call that returns next: its base_config and its data
ReturningBase == cfBase

ReturningData == cfStack[Len(cfStack)].data

\* Down from two dicts and their merge: at every key of the child, unless
\* both values are dicts, the merged value is the child's value; where
\* both are dicts the same holds one level down.
RECURSIVE ChildReplaces(_, _, _)
ChildReplaces(base, child, merged) ==
    \A key \in DOMAIN child :
        /\ key \in DOMAIN merged
        /\ IF key \in DOMAIN base /\ IsDict(child[key]) /\ IsDict(base[key])
           THEN /\ IsDict(merged[key])
                /\ ChildReplaces(base[key].entries, child[key].entries, merged[key].entries)
           ELSE merged[key] = child[key]

\* C18: in every merge of a base configuration and a child document, at
\* every key of the child at any depth, when the child's value is not a
\* map or the base has no map at that key, the merged value is exactly the
\* child's value: a scalar replaces a map, a map replaces a scalar, and an
\* array replaces an array.
C18_ChildValueReplaces ==
    [][cfPc = "merge" => ChildReplaces(ReturningBase, ReturningData, cfBase')]_vars

\* a.json over b.json over c.json: the array k.p of b.json has replaced the
\* array of c.json, and the number k.q of a.json has replaced the map of
\* b.json
C18_Witness ==
    /\ cfPc = "done"
    /\ Len(Chain) = 3
    /\ Lookup(cfFiles[Chain[3]], <<"k", "p">>).val = ListVal(<<3>>)
    /\ Lookup(cfFiles[Chain[2]], <<"k", "p">>).val = ListVal(<<2>>)
    /\ Lookup(cfFiles[Chain[2]], <<"k", "q">>).val = DictVal(("r" :> IntVal(2)))
    /\ cfBase = ("j" :> IntVal(1)) @@ ("k" :> DictVal(("p" :> ListVal(<<2>>)) @@ ("q" :> IntVal(1))))

\* the sections of the i-th document of the chain, the leaf being the first
ChainData(i) == Without(cfFiles[Chain[i]], {"inherits", "$schema"})

\* what the document nearest the leaf that is not silent on the path says
RECURSIVE Nearest(_, _)
Nearest(i, path) ==
    IF i > Len(Chain) THEN Silent
    ELSE IF Lookup(ChainData(i), path).found = "silent" THEN Nearest(i + 1, path)
    ELSE Lookup(ChainData(i), path)

\* C19: in the resolved configuration of a chain of one, two or three
\* documents, every key path is decided by the document nearest the leaf
\* that defines it: a value there that is not a map is the resolved value;
\* a map there makes the path a map, whose keys are decided in the same
\* way, so that a key only an ancestor's map defines is kept; a path no
\* document defines, or that the nearest document cuts off with a value
\* that is not a map, is absent.
C19_NearestDocumentWins ==
    cfPc = "done"
        => \A path \in KeyPaths :
              LET want == Nearest(1, path)
                  got == Lookup(cfBase, path)
              IN IF want.found = "value"
                 THEN /\ got.found = "value"
                      /\ IF IsDict(want.val) THEN IsDict(got.val) ELSE got.val = want.val
                 ELSE got.found # "value"

\* a.json {k: {p: 1}} over b.json {j: 2, k: {q: 2}} over c.json
\* {k: {p: [3], q: {r: 3}}}
C19_Witness ==
    /\ cfPc = "done"
    /\ Len(Chain) = 3
    /\ ChainData(1) = ("k" :> DictVal(("p" :> IntVal(1))))
    /\ ChainData(2) = ("j" :> IntVal(2)) @@ ("k" :> DictVal(("q" :> IntVal(2))))
    /\ ChainData(3) = ("k" :> DictVal(("p" :> ListVal(<<3>>)) @@ ("q" :> DictVal(("r" :> IntVal(3))))))
    /\ cfBase = ("j" :> IntVal(2)) @@ ("k" :> DictVal(("p" :> IntVal(1)) @@ ("q" :> IntVal(2))))

\* C20: neither the resolved configuration nor the value any call of
\* _load_config_recursive returns has a top-level "inherits" or "$schema" key.
C20_NoInheritsNoSchema ==
    "inherits" \notin DOMAIN cfBase /\ "$schema" \notin DOMAIN cfBase

\* a chain of three documents that all declare "$schema" and "inherits"
\* (the last one an empty "inherits")
C20_Witness ==
    /\ cfPc = "done"
    /\ Len(Chain) = 3
    /\ \A p \in DocPaths : {"inherits", "$schema"} \subseteq DOMAIN cfFiles[p]
    /\ cfBase # EmptyDict

(***************************************************************************)
(* Claims about main and the scheduler loop, checked under SpecMain        *)
(***************************************************************************)

\* The inheritance chain of the leaf ends in a fatal error: it comes back
\* to a document it went through, or ends at a path where there is no file
\* or a file that is not JSON.
FatalChain ==
    \/ ChainRevisits
    \/ Chain[Len(Chain)] \notin DOMAIN cfFiles
    \/ cfFiles[Chain[Len(Chain)]] = Malformed

\* C21: when the configuration cannot be loaded (a missing file, a file
\* that is not JSON or a circular inheritance, at the leaf or at an
\* ancestor), the process never calls run_scraping_cycle, invokes no
\* collector, hands no event to the publisher and registers no job; it is
\* never stuck before it has ended, and it ends with the loader's error:
\* by sys.exit(1) for a missing or malformed file, through main's handler
\* for a circular inheritance.
C21_FatalConfigErrorRunsNothing ==
    /\ FatalChain
         => /\ mnPc \in {"config", "exited"}
            /\ mnCycles = 0 /\ mnInFlight = 0
            /\ mnCalled = {} /\ mnEvents = <<>>
            /\ mnJob = None
    /\ FatalChain /\ mnPc # "exited"
         => ENABLED (ConfigLoad \/ ConfigReturn \/ MainConfigFailed)
    /\ FatalChain /\ mnPc = "exited"
         => /\ cfPc = "raised"
            /\ mnExit = IF ChainRevisits THEN "error logged" ELSE "sys.exit(1)"
    /\ cfPc = "raised" => FatalChain

\* a.json inherits b.json, b.json inherits c.json, c.json is not JSON:
\* the process has ended
C21_Witness ==
    /\ mnPc = "exited"
    /\ cfError = "JSONDecodeError"
    /\ Len(cfStack) = 2
    /\ mnExit = "sys.exit(1)"

\* the leaf itself is missing
C21_WitnessLeafMissing ==
    /\ mnPc = "exited"
    /\ cfError = "FileNotFoundError"
    /\ ConfigPath \notin DOMAIN cfFiles

\* a cycle through the three documents
C21_WitnessCircular ==
    /\ mnPc = "exited"
    /\ cfError = "ValueError"
    /\ Len(cfStack) = 3
    /\ mnExit = "error logged"

\* C24: at no time is more than one call of run_scraping_cycle in flight,
\* and a call starts only when none is in flight; this holds while a cycle
\* started by the scheduler goes on for longer than the job's interval.
C24_AtMostOneCycleInFlight ==
    /\ [](mnInFlight <= 1)
    /\ [][mnCycles' # mnCycles => mnInFlight = 0 /\ mnInFlight' = 1]_vars
    /\ [][mnInFlight > 0 /\ mnClock' # mnClock => mnCycles' = mnCycles]_vars

\* a cycle started by the job of every(1).hours is still in flight more
\* than an hour after the time it was due
C24_Witness ==
    /\ mnInFlight = 1
    /\ mnCaller = "scheduler"
    /\ Get(mnJob).hour = [form |-> "every", n |-> 1]
    /\ mnClock > Get(mnJob).next_run + 1

\* a second cycle started by the scheduler, after the first has returned
C24_WitnessSecond ==
    /\ mnInFlight = 1
    /\ mnCaller = "scheduler"
    /\ mnCycles = 2

(***************************************************************************)
(* Claims about rotate_ip, checked under SpecRotate                        *)
(***************************************************************************)

\* C22: no rotate_ip call raises; a call returns True exactly when it ran
\* the script and the script exited with code 0 within the timeout; after
\* another exit code, a timeout or a failure to run the script it returns
\* False.
C22_RotateNeverRaises ==
    \A i \in 1..Len(rtLog) :
        /\ ~rtLog[i].raised
        /\ rtLog[i].returned <=> (rtLog[i].executed /\ rtLog[i].outcome = "exit 0")

\* three calls on a manager whose script exists: a timeout, an exit with
\* code 1, an exit with code 0
C22_Witness ==
    /\ Len(rtLog) = 3
    /\ rtLog[1].outcome = "timeout" /\ ~rtLog[1].returned
    /\ rtLog[2].outcome = "exit 1" /\ ~rtLog[2].returned
    /\ rtLog[3].outcome = "exit 0" /\ rtLog[3].returned

\* the script could not be run
C22_WitnessOsError ==
    /\ Len(rtLog) = 1
    /\ rtLog[1].executed /\ rtLog[1].outcome = "os error" /\ ~rtLog[1].returned

\* The number of missing-routine lines the calls of a log wrote.
RECURSIVE MissingLogged(_)
MissingLogged(log) ==
    IF log = <<>> THEN 0 ELSE log[1].logged_missing + MissingLogged(Tail(log))

\* C23: a call on a manager without a script path, or made while no file
\* exists at the path, returns False and runs nothing; and the calls on one
\* manager log the missing routine at most once in all.
C23_MissingRoutineLoggedOnce ==
    /\ [](MissingLogged(rtLog) <= 1)
    /\ [][Len(rtLog') > Len(rtLog) /\ (~IsSome(rtManager.script_path) \/ ~rtExists)
            => LET call == rtLog'[Len(rtLog')]
               IN ~call.returned /\ ~call.executed /\ ~call.raised]_vars

\* the file is missing at the first call, exists at the second, and is
\* missing again at the third: one line was logged
C23_Witness ==
    /\ Len(rtLog) = 3
    /\ ~rtLog[1].executed /\ rtLog[1].logged_missing = 1
    /\ rtLog[2].executed
    /\ ~rtLog[3].executed /\ rtLog[3].logged_missing = 0

\* three calls on a manager without a script path
C23_WitnessNotConfigured ==
    /\ Len(rtLog) = 3
    /\ ~IsSome(rtManager.script_path)
    /\ MissingLogged(rtLog) = 1

(***************************************************************************)
(* Claims about collect_job_urls_until_cutoff, checked under SpecWorker    *)
(***************************************************************************)

\* C25: in both strategies the call ends only after the collection has
\* ended: while the worker thread runs the caller waits in join; a call
\* that returned returned the list the collection returned, a call that
\* raised raised the exception the collection raised, and a collection that
\* raised never makes the call return; a caller waiting for a finished
\* thread can go on.
C25_SynchronousEitherWay ==
    /\ wkThread = "running" => wkPc = "join"
    /\ wkPc \in {"returned", "raised"}
         => /\ wkThread = IF wkLoopRunning THEN "finished" ELSE "none"
            /\ wkReturn = wkOutcome
            /\ (wkPc = "raised") <=> (wkOutcome.exc # "none")
    /\ wkPc = "join" /\ wkThread = "finished" => ENABLED CollectJoin

\* with an event loop running, the call returned the two jobs the worker
\* collected over three pages
C25_Witness ==
    /\ wkLoopRunning
    /\ wkPc = "returned"
    /\ wkProgress = 3
    /\ wkReturn.res = <<"u1", "u2">>
    /\ wkResult = <<wkReturn.res>>

\* with an event loop running, the worker's KeyboardInterrupt was raised on
\* the calling thread
C25_WitnessRaised ==
    /\ wkLoopRunning
    /\ wkPc = "raised"
    /\ wkReturn.exc = "KeyboardInterrupt"
    /\ wkExc = <<"KeyboardInterrupt">>

\* without an event loop the call ran the collection itself
C25_WitnessDirect ==
    /\ ~wkLoopRunning
    /\ wkPc = "returned"
    /\ wkThread = "none"
    /\ wkReturn.res = <<"u1", "u2">>

(***************************************************************************)
(* Claims about _compute_title_hash, checked under SpecHash                *)
(***************************************************************************)

\* The positions of a string that hold no whitespace.
Inked(s) == {i \in 1..Len(s) : s[i] \notin Whitespace}

\* The first HashPrefixLen characters of a string from its first to its
\* last character that is no whitespace; empty for a string without one.
TrimmedPrefix(s) ==
    IF Inked(s) = {} THEN <<>>
    ELSE LET first == CHOOSE i \in Inked(s) : \A j \in Inked(s) : i <= j
             last == CHOOSE i \in Inked(s) : \A j \in Inked(s) : j <= i
         IN [k \in 1..Min(HashPrefixLen, last - first + 1) |-> s[first + k - 1]]

\* the title has no hash to give: None, no string, empty or all whitespace
Hashless(title) == ~IsStr(title) \/ Inked(Get(title)) = {}

\* C26: the hash of a title is null exactly when the title is None, not a
\* string, empty or whitespace only; two other titles have the same hash
\* exactly when the first 100 characters of their trimmed forms are equal.
C26_TitleHashOfTrimmedPrefix ==
    thPc = "hashed"
        => /\ \A i \in 1..2 : Hashless(thTitles[i]) <=> thHashes[i] = None
           /\ ~Hashless(thTitles[1]) /\ ~Hashless(thTitles[2])
                => (thHashes[1] = thHashes[2]
                       <=> TrimmedPrefix(Get(thTitles[1])) = TrimmedPrefix(Get(thTitles[2])))

\* two titles of more than 100 characters that differ in the padding
\* around them and in their 101st character have the same hash
C26_Witness ==
    /\ thPc = "hashed"
    /\ thTitles[1] = Some(Repeat("a", HashPrefixLen) \o <<"b">>)
    /\ thTitles[2] = Some(<<" ">> \o Repeat("a", HashPrefixLen) \o <<"c", " ">>)
    /\ thHashes[1] = thHashes[2]
    /\ thHashes[1] # None

\* a whitespace-only title and a NaN both have a null hash
C26_WitnessNull ==
    /\ thPc = "hashed"
    /\ thTitles = <<Some(<<"\t", " ">>), NaN>>
    /\ thHashes = <<None, None>>

(***************************************************************************)
(* The title_hash column of the artifact, checked under SpecCycle          *)
(***************************************************************************)

\* The hash a title must get: none for a title without one to give, else
\* the digest of the first 100 characters of the trimmed title.
HashOf(title) ==
    IF Hashless(title) THEN None ELSE Some(TrimmedPrefix(Get(title)))

\* C27: the artifact a cycle has written has a title_hash column, also
\* when it has no rows, and the title_hash of each of its rows is the hash
\* of the row's title.
C27_ArtifactHasTitleHash ==
    cyc.written
        => /\ "title_hash" \in cyc.artifact.cols
           /\ \A i \in 1..Len(cyc.artifact.rows) :
                 cyc.artifact.rows[i].title_hash = HashOf(cyc.artifact.rows[i].title)

\* a cycle in which every source returned no rows wrote its artifact
C27_Witness ==
    /\ cyc.written
    /\ cyc.called = {"hnhiring", "builtin"}
    /\ cyc.artifact.rows = <<>>
    /\ "title_hash" \in cyc.artifact.cols

\* an artifact with a row of the engine whose title is missing and a row
\* of a collector
C27_WitnessRows ==
    /\ cyc.written
    /\ Len(cyc.artifact.rows) = 2
    /\ cyc.artifact.rows[1].title = NaN /\ cyc.artifact.rows[1].title_hash = None
    /\ cyc.artifact.rows[2].title = TitleA /\ cyc.artifact.rows[2].title_hash = Some(<<"a">>)

(***************************************************************************)
(* Claims about the transformers, checked under SpecSchema                 *)
(***************************************************************************)

\* C28: the record a transformer returns has the fields its columns name,
\* all of them and no other, whatever fields the dict it was given has or
\* lacks; each holds a value or None; and the two transformers declare the
\* same columns in the same order, without a repetition.
C28_RecordHasAllFields ==
    /\ BuiltinColumns = HNColumns
    /\ Cardinality(Range(HNColumns)) = Len(HNColumns)
    /\ trPc = "done"
         => /\ DOMAIN trRecord = Range(IF trSite = "builtin" THEN BuiltinColumns ELSE HNColumns)
            /\ \A c \in DOMAIN trRecord :
                  trRecord[c].kind \in {"null", "text", "bool"}

\* the record BuiltinTransformer made of a dict with nothing but a url
C28_Witness ==
    /\ trPc = "done"
    /\ trSite = "builtin"
    /\ trJob = ("url" :> Text(<<"u1">>))
    /\ trRecord["job_url"] = Text(<<"u1">>)
    /\ trRecord["company"] = NullVal
    /\ Cardinality(DOMAIN trRecord) = 35

\* the record HNTransformer made of the empty dict
C28_WitnessHN ==
    /\ trPc = "done"
    /\ trSite = "hnhiring"
    /\ trJob = EmptyDict
    /\ trRecord["is_remote"] = Bool(FALSE)
    /\ Cardinality(DOMAIN trRecord) = 35

(***************************************************************************)
(* Claims about the collectors' scrape, checked under SpecDedup            *)
(***************************************************************************)

\* C29: no exception leaves a collector's scrape when fetching fails.  When
\* requests.get raises for a category, HNHiringCollector.scrape returns a
\* DataFrame without rows that has all the transformer's columns, as every
\* DataFrame it returns has.  When the collection of a keyword raises,
\* BuiltinJobsCollector.scrape logs it and goes on: every listing of the
\* other keywords that has a url and a detail page has its record.
C29_ScrapeSurvivesNetworkFailure ==
    /\ hnPc = "done"
         => /\ hnRaised = "none"
            /\ hnResult.columns = HNColumns
            /\ Len(hnResult.columns) = 35
            /\ (hnEnabled /\ \E c \in 1..Len(hnResponses) : hnResponses[c].raises)
                  => hnResult.rows = <<>>
    /\ bsPc = "done"
         => /\ ~bsRaised
            /\ \A k \in bsCollectFails : \E n \in 1..Len(bsLogged) : bsLogged[n] = Keywords[k]
            /\ Len(bsLogged) = Cardinality(bsCollectFails)
            /\ \A k \in (1..Len(bsJobsMeta)) \ bsCollectFails :
                  \A i \in 1..Len(bsJobsMeta[k]) :
                     LET meta == bsJobsMeta[k][i]
                     IN Truthy(meta.url) /\ meta.detail_ok
                           => \E n \in 1..Len(bsRecords) : bsRecords[n].job_url = meta.url

\* the first category's page lists a job, the request for the second raises
C29_Witness ==
    /\ hnPc = "done"
    /\ hnEnabled
    /\ Len(hnResponses) = 2
    /\ hnResponses[1].status_code = 200
    /\ hnResponses[1].jobs # <<>>
    /\ hnResponses[1].jobs[1].link = "u1"
    /\ hnResponses[1].jobs[1].salary = None
    /\ hnResponses[2].raises
    /\ hnSearch.raised = "ConnectionError"
    /\ hnResult.rows = <<>>

\* the collection of the first keyword raises, the second keyword's job is
\* collected
C29_WitnessBuiltin ==
    /\ bsPc = "done"
    /\ bsCollectFails = {1}
    /\ bsLogged = <<"kw1">>
    /\ Len(bsRecords) = 1

\* a scrape that no failure disturbs returns rows with all the columns
C29_WitnessRows ==
    /\ hnPc = "done"
    /\ hnSearch.raised = "none"
    /\ Len(hnResult.rows) = 1
    /\ DOMAIN hnResult.rows[1] = Range(HNColumns)

\* The job at a position of the pages fetched.
JobAt(at) == hnResponses[at[1]].jobs[at[2]]

\* The positions of the jobs on the pages fetched.
Positions ==
    {at \in (1..Len(hnResponses)) \X (1..MaxHNJobs) :
        ~hnResponses[at[1]].raises /\ at[2] <= Len(hnResponses[at[1]].jobs)}

\* C30: every job the days cutoff of search excluded has a parsed date,
\* which is before today minus days with days set; so no job without a
\* parsed date is excluded by it.  When search returned, the cutoff
\* excluded every such job, and a job with neither date nor salary is among
\* the jobs returned.
C30_NullDateNeverCut ==
    hnPc = "done"
       => /\ \A at \in hnSearch.cut :
                /\ at \in Positions
                /\ IsSome(JobAt(at).date_posted)
                /\ hnDays \notin {NullVal, IntVal(0)}
                /\ Get(JobAt(at).date_posted) < Today - hnDays.val
          /\ (hnEnabled /\ hnSearch.raised = "none")
                => \A at \in Positions :
                      /\ (/\ IsSome(JobAt(at).date_posted)
                          /\ hnDays \notin {NullVal, IntVal(0)}
                          /\ Get(JobAt(at).date_posted) < Today - hnDays.val)
                            => at \in hnSearch.cut
                      /\ (JobAt(at).date_posted = None /\ JobAt(at).salary = None)
                            => \E n \in 1..Len(hnSearch.all_jobs) :
                                  hnSearch.all_jobs[n] = JobAt(at)

\* days is 2: the job without date of the first page is returned, the job
\* of the second page, dated three days ago, is excluded
C30_Witness ==
    /\ hnPc = "done"
    /\ hnDays = IntVal(2)
    /\ hnSearch.raised = "none"
    /\ Len(hnResponses) = 2
    /\ hnResponses[1].jobs # <<>>
    /\ hnResponses[2].jobs # <<>>
    /\ JobAt(<<1, 1>>).date_posted = None
    /\ JobAt(<<2, 1>>).date_posted = Some(2)
    /\ hnSearch.cut = {<<2, 1>>}
    /\ hnSearch.all_jobs = <<JobAt(<<1, 1>>)>>

\* days is 0: a dated job older than any cutoff is returned
C30_WitnessNoCutoff ==
    /\ hnPc = "done"
    /\ hnDays = IntVal(0)
    /\ hnSearch.raised = "none"
    /\ Len(hnSearch.all_jobs) = 2
    /\ hnSearch.all_jobs[1].date_posted = Some(2)

\* A job whose salary text is there and has no digit.
SalaryWithoutDigit(job) ==
    /\ IsSome(job.salary)
    /\ Get(job.salary) # <<>>
    /\ \A i \in 1..Len(Get(job.salary)) : ~IsDigit(Get(job.salary)[i])

\* C31: search never raises because of a salary text without a digit, and
\* a job with such a salary is left out whatever min_salary and max_salary
\* are: it is not among the jobs search returns.
C31_SalaryWithoutDigitNeverRaises ==
    hnPc = "done"
       => /\ hnSearch.raised # "ValueError"
          /\ \A n \in 1..Len(hnSearch.all_jobs) : ~SalaryWithoutDigit(hnSearch.all_jobs[n])

\* HNFilter of jobspy/hnhiring/filter.py met a salary without a digit, with
\* no salary bound set: search returned, without the job
C31_WitnessSkipped ==
    /\ hnPc = "done"
    /\ hnModule = "jobspy.hnhiring.filter"
    /\ hnMinSalary = NullVal /\ hnMaxSalary = NullVal
    /\ Len(hnResponses) = 2
    /\ hnResponses[1].jobs # <<>>
    /\ SalaryWithoutDigit(JobAt(<<1, 1>>))
    /\ hnSearch.raised = "none"
    /\ hnSearch.cut = {}

\* HNFilter of hn_filter.py met a salary without a digit: int("") raised
\* ValueError out of search, and scrape returned no row
C31_WitnessRaised ==
    /\ hnPc = "done"
    /\ hnModule = "hn_filter"
    /\ Len(hnResponses) = 2
    /\ hnResponses[1].jobs # <<>>
    /\ SalaryWithoutDigit(JobAt(<<1, 1>>))
    /\ hnSearch.raised = "ValueError"
    /\ hnRaised = "none"
    /\ hnResult.rows = <<>>

(***************************************************************************)
(* Claims about is_remote, checked under SpecSchema                        *)
(***************************************************************************)

\* The candidates of _resolve_keywords for the run.
Candidates == IF trKeywords # <<>> THEN trKeywords ELSE trFallback

\* The configured keywords a listing's search_keyword comes from: the
\* candidates that _normalize_keyword turns into it, whatever their case.
ConfiguredFor(search_keyword) ==
    {Candidates[k] : k \in {n \in 1..Len(Candidates) :
        LowerKeyword(NormalizeKeyword(Candidates[n])) = LowerKeyword(search_keyword.text)}}

\* "remote" in s.lower(), for the text of a record's field or None
MentionsRemote(v) == v.kind = "text" /\ HasRemote(v.text)

\* C32: the record of a listing has is_remote True whenever its location
\* mentions "remote" or the configured keyword it was searched with does.
C32_RemoteFromLocationOrKeyword ==
    (trPc = "done" /\ trSite = "builtin" /\ "search_keyword" \in DOMAIN trJob)
       => ((\/ MentionsRemote(trRecord["location"])
            \/ \E kw \in ConfiguredFor(trJob["search_keyword"]) : HasRemote(kw))
             => trRecord["is_remote"] = Bool(TRUE))

\* What the transformer does with the keyword it is given: is_remote is
\* True exactly when the location or search_keyword mentions "remote", and
\* None otherwise.
C32_RemoteFromGivenKeyword ==
    (trPc = "done" /\ trSite = "builtin")
       => /\ trRecord["is_remote"] = Bool(TRUE)
               <=> (\/ MentionsRemote(trRecord["location"])
                    \/ MentionsRemote(DictGet(trJob, "search_keyword")))
          /\ trRecord["is_remote"] \in {Bool(TRUE), NullVal}

\* the configured keyword "remote python" is searched as "python", and the
\* record of a listing in Austin has is_remote None
C32_WitnessKeywordStripped ==
    /\ trPc = "done"
    /\ trSite = "builtin"
    /\ trKeywords = <<<<"remote", " ", "python">>>>
    /\ DictGet(trJob, "search_keyword") = Text(<<"python">>)
    /\ trRecord["location"] = Text(<<"Austin">>)
    /\ trRecord["is_remote"] = NullVal

\* the keyword "remotely hiring" keeps its word, and the record of a
\* listing in Austin has is_remote True
C32_WitnessKeywordKept ==
    /\ trPc = "done"
    /\ trSite = "builtin"
    /\ DictGet(trJob, "search_keyword") = Text(<<"remotely", " ", "hiring">>)
    /\ trRecord["location"] = Text(<<"Austin">>)
    /\ trRecord["is_remote"] = Bool(TRUE)

(***************************************************************************)
(* Claims about the posted label, checked under SpecLabel                  *)
(***************************************************************************)

\* The label in lower case, and what its rules look at: the word "just",
\* the numbers directly followed by an hour unit or by a day unit, and the
\* words "hour" and "day" anywhere.
LabelLower == Lower(lbText)
LabelHasJust == \E i \in 1..Len(lbText) : LabelLower[i].kind = "word" /\ LabelLower[i].w = "just"
HourPairs ==
    {i \in 1..(Len(lbText) - 1) :
        /\ LabelLower[i].kind = "num"
        /\ LabelLower[i + 1].kind = "word"
        /\ LabelLower[i + 1].w \in {"hour", "hours", "hr", "hrs"}}
DayPairs ==
    {i \in 1..(Len(lbText) - 1) :
        /\ LabelLower[i].kind = "num"
        /\ LabelLower[i + 1].kind = "word"
        /\ LabelLower[i + 1].w \in {"day", "days"}}
LabelUnrecognized ==
    /\ ~LabelHasJust
    /\ HourPairs \cup DayPairs = {}
    /\ \A i \in 1..Len(lbText) :
          LabelLower[i].kind = "word"
             => LabelLower[i].w \notin {"hour", "hours", "day", "days", "yesterday", "today"}

\* Parts of both statements: a label with "just" gives now, and a label
\* that no rule recognises gives now and is not excluded by the cutoff.
JustAndUnrecognizedGiveNow ==
    /\ LabelHasJust => lbParsed = Some(lbNow)
    /\ LabelUnrecognized => lbParsed = Some(lbNow) /\ ~lbExcluded

\* C33 as stated: a label with "just" gives now; else a number followed by
\* an hour unit gives now minus N hours; else a number followed by a day
\* unit gives now minus N days; a label that matches no rule gives now and
\* is not excluded by the cutoff.
C33_HourRuleBeforeDayRule ==
    (lbPc = "done" /\ lbText # <<>>)
       => /\ JustAndUnrecognizedGiveNow
          /\ (~LabelHasJust /\ HourPairs # {})
                => lbParsed = Some(lbNow - LabelLower[MinOf(HourPairs)].n)
          /\ (~LabelHasJust /\ HourPairs = {} /\ DayPairs # {})
                => lbParsed = Some(lbNow - HoursPerDay * LabelLower[MinOf(DayPairs)].n)

\* C33, amended: in a label without "just", the leftmost number followed by
\* a unit decides, giving now minus N hours if the unit is an hour unit and
\* now minus N days if it is a day unit; a label with "just" gives now; a
\* label that matches no rule gives now and is not excluded by the cutoff.
C33_LeftmostUnitDecides ==
    (lbPc = "done" /\ lbText # <<>>)
       => /\ JustAndUnrecognizedGiveNow
          /\ (~LabelHasJust /\ HourPairs \cup DayPairs # {})
                => LET i == MinOf(HourPairs \cup DayPairs)
                   IN lbParsed = IF i \in HourPairs
                                 THEN Some(lbNow - LabelLower[i].n)
                                 ELSE Some(lbNow - HoursPerDay * LabelLower[i].n)

\* "3+ Days 2 Hours" read at hour 1 is three days old, and excluded
C33_Witness ==
    /\ lbPc = "done"
    /\ lbText = <<NumPlus(3), Word("Days"), Num(2), Word("Hours")>>
    /\ lbNow = 1
    /\ lbMaxAge = 24
    /\ lbParsed = Some(1 - 72)
    /\ lbExcluded

\* "Soon" is no known label: it gives now, and the link is kept
C33_WitnessUnrecognized ==
    /\ lbPc = "done"
    /\ lbText = <<Word("Soon")>>
    /\ lbMaxAge = 24
    /\ lbParsed = Some(lbNow)
    /\ ~lbExcluded

\* "Yesterday" falls to the generic rule for "day": thirty days old
C33_WitnessFallback ==
    /\ lbPc = "done"
    /\ lbText = <<Word("Yesterday")>>
    /\ lbNow = 0
    /\ lbParsed = Some(0 - 720)

\* The events of the cycle that are completion events.
CompletionEvents == {i \in 1..Len(cyc.events) : cyc.events[i].type = "csv_ready"}

\* C34: whenever a completion event has been handed to the publisher, the
\* artifact of the cycle has been written, the event's csv_path is the path
\* save_to_csv wrote to, and its row_count is the number of rows written.
C34_CompletionAfterArtifact ==
    \A i \in CompletionEvents :
        /\ cyc.written
        /\ cyc.events[i].csv_path = CsvPath
        /\ cyc.events[i].row_count = Len(cyc.artifact.rows)

\* a cycle that wrote two rows, one of each collector, and announced two
C34_Witness ==
    /\ cyc.finished
    /\ cyc.written
    /\ Len(cyc.artifact.rows) = 2
    /\ ~IsEmpty(cyc.hn)
    /\ ~IsEmpty(cyc.builtin)
    /\ cyc.events = <<CsvReady(CsvPath, 2)>>

\* a cycle whose save_to_csv failed announces no completion
C34_WitnessWriteFailed ==
    /\ cyc.finished
    /\ cyc.error = "write"
    /\ ~cyc.written
    /\ CompletionEvents = {}

\* The labels _guarded_collect is called with, and how often a rotation
\* with a given reason was invoked in the cycle.
CollectorLabels == {"hnhiring", "builtin"}
RotationCount(reason) ==
    Cardinality({i \in 1..Len(cyc.rotations) : cyc.rotations[i] = reason})

\* The rotations invoked for one label, in order.
RotationsOf(label) ==
    SelectSeq(cyc.rotations,
              LAMBDA r : r \in {"pre_request:" \o label, "failure:" \o label})

\* C35: for every guarded collector call of the cycle, the rotation with a
\* failure reason was invoked once when the call raised and
\* rotate_after_failure is set and not at all otherwise, the rotation before
\* the call was invoked once when rotate_before_request is set and not at
\* all otherwise, and a call that returned is followed by no rotation.
C35_GuardedCollectRotations ==
    \A label \in CollectorLabels :
        /\ RotationCount("failure:" \o label) =
              IF label \in cyc.raised /\ net.rotate_after_failure THEN 1 ELSE 0
        /\ RotationCount("pre_request:" \o label) =
              IF label \in cyc.called /\ net.rotate_before_request THEN 1 ELSE 0
        /\ (label \in cyc.called \ cyc.raised
                => RotationsOf(label) \in {<<>>, <<"pre_request:" \o label>>})
        /\ (label \notin cyc.called => RotationsOf(label) = <<>>)

\* HN Hiring raised and BuiltIn returned rows, with both settings on: two
\* rotations for the first, one for the second
C35_Witness ==
    /\ cyc.finished
    /\ net.rotate_before_request
    /\ net.rotate_after_failure
    /\ cyc.raised = {"hnhiring"}
    /\ ~IsEmpty(cyc.builtin)
    /\ cyc.rotations = <<"pre_request:hnhiring", "failure:hnhiring", "pre_request:builtin">>

\* a call that raised with rotate_after_failure off: no rotation at all
C35_WitnessNoRotation ==
    /\ cyc.finished
    /\ ~net.rotate_before_request
    /\ ~net.rotate_after_failure
    /\ cyc.raised = {"hnhiring", "builtin"}
    /\ cyc.rotations = <<>>

\* The enabled setting of the collector a label names.
EnabledOf(label) == IF label = "hnhiring" THEN srcEnabled.hn ELSE srcEnabled.builtin

\* The frame the cycle holds for a label.
FrameOf(label) == IF label = "hnhiring" THEN cyc.hn ELSE cyc.builtin

\* C36: in a cycle with rotate_before_request set, a source whose enabled
\* setting is false causes no rotation and no collector work.
C36_NoRotationForDisabledSource ==
    net.rotate_before_request
        => \A label \in CollectorLabels :
              ~EnabledOf(label)
                 => /\ RotationsOf(label) = <<>>
                    /\ label \notin cyc.raised
                    /\ Len(FrameOf(label).rows) = 0

\* C36, the part the code keeps: a collector whose enabled setting is false
\* returns no row and raises nothing, so it is never the reason of a
\* rotation after a failure.
C36_DisabledSourceDoesNoWork ==
    \A label \in CollectorLabels :
        ~EnabledOf(label)
            => /\ label \notin cyc.raised
               /\ Len(FrameOf(label).rows) = 0
               /\ RotationCount("failure:" \o label) = 0

\* HN Hiring is disabled and not delegated: the cycle rotated for it
C36_WitnessRotatedForDisabled ==
    /\ cyc.finished
    /\ net.rotate_before_request
    /\ ~srcEnabled.hn
    /\ ~delegated.hn
    /\ "hnhiring" \in cyc.called
    /\ RotationsOf("hnhiring") = <<"pre_request:hnhiring">>

\* a delegated site has no collector: no rotation for it in the guard
C36_WitnessDelegated ==
    /\ cyc.finished
    /\ net.rotate_before_request
    /\ delegated.hn
    /\ ~srcEnabled.hn
    /\ "hnhiring" \notin cyc.called
    /\ RotationsOf("hnhiring") = <<>>

\* C40: a run of run_scraping_cycle hands at most one event to the
\* publisher, never a completion event and an error event together; none
\* while the body is still running, and exactly one once the body has
\* finished (a completion event) or raised (an error event).
C40_OneEventPerCycle ==
    /\ Len(cyc.events) <= 1
    /\ (~cyc.finished => cyc.events = <<>>)
    /\ (cyc.finished
          => /\ Len(cyc.events) = 1
             /\ cyc.events[1].type =
                   IF cyc.error = "none" THEN "csv_ready" ELSE "scraping_error")

\* a cycle whose body finished: its one event is the completion event
C40_Witness ==
    /\ cyc.finished
    /\ cyc.error = "none"
    /\ cyc.raised = {"builtin"}
    /\ Len(cyc.events) = 1
    /\ cyc.events[1].type = "csv_ready"

\* a cycle whose body raised in save_to_csv: its one event is the error event
C40_WitnessRaised ==
    /\ cyc.finished
    /\ cyc.error = "write"
    /\ cyc.events = <<ScrapingError("write")>>

\* The listings of a run in the order scrape meets them: keyword by
\* keyword, and within a keyword in the order of its jobs_meta.
RECURSIVE ListingsFrom(_)
ListingsFrom(k) ==
    IF k > Len(bsJobsMeta) THEN <<>> ELSE bsJobsMeta[k] \o ListingsFrom(k + 1)
Listings == ListingsFrom(1)

\* The listings of a url that scrape meets before any listing of that url
\* whose detail page could be fetched: the ones it has to fetch.
DueListings(url) ==
    {p \in 1..Len(Listings) :
        /\ Listings[p].url = url
        /\ \A q \in 1..(p - 1) : ~(Listings[q].url = url /\ Listings[q].detail_ok)}

\* How often a url was given to fetch_and_parse, and the urls of the records.
FetchCount(url) == Cardinality({j \in 1..Len(bsFetched) : bsFetched[j] = url})
RecordUrls == {bsRecords[n].job_url : n \in 1..Len(bsRecords)}
ListedUrls == {Listings[p].url : p \in 1..Len(Listings)} \cap {"u1", "u2"}

C37_WitnessNeverSeen ==
    /\ bsPc = "done"
    /\ bsFetched = <<"u1", "u1", "u1">>
    /\ bsSeen = {}
    /\ bsRecords = <<>>

\* C38: within one run a detail page is fetched only for a url that is not
\* in seen_urls (no url is fetched again after a fetch of it succeeded), and
\* no two records of the result have the same url, across all keywords.
C38_NoUrlTwiceInRecords ==
    bsPc = "done"
        => /\ \A url \in ListedUrls : FetchCount(url) <= Cardinality(DueListings(url))
           /\ \A m, n \in 1..Len(bsRecords) :
                 bsRecords[m].job_url = bsRecords[n].job_url => m = n

\* both keywords list u1 and u2, every fetch succeeds: two fetches, two records
C38_Witness ==
    /\ bsPc = "done"
    /\ bsJobsMeta = <<
          <<[url |-> "u1", detail_ok |-> TRUE], [url |-> "u2", detail_ok |-> TRUE]>>,
          <<[url |-> "u2", detail_ok |-> TRUE], [url |-> "u1", detail_ok |-> TRUE]>> >>
    /\ bsFetched = <<"u1", "u2">>
    /\ bsRecords = <<[site |-> "builtin", job_url |-> "u1"],
                     [site |-> "builtin", job_url |-> "u2"]>>

\* C39: the oldest-on-page check never ends the loop.  Whenever a page with
\* links finished without the mid-page cutoff, every timestamp recorded in
\* page_posted_ats is not older than the cutoff, the check does not fire,
\* and the loop goes on with the next page; it ends only at an empty page,
\* at the mid-page cutoff or at the page limit.
C39_OldestCheckNeverDecides ==
    /\ pgLast.reason \in {"none", "next", "no_links", "cutoff", "max_pages"}
    /\ (pgLast.kind = "visit" /\ pgLast.links # <<>> /\ ~pgLast.stop)
          => /\ \A i \in 1..Len(pgLast.page_posted_ats) :
                   IsSome(PageCutoff) => pgLast.page_posted_ats[i] >= Get(PageCutoff)
             /\ ~StopOnOldest(PageCutoff, pgLast.page_posted_ats)
             /\ pgLast.reason = "next"
             /\ pgPc = "loop"
             /\ pgPageNum = pgLast.page_num + 1

\* a page with a fresh label and a link without label, read an hour after
\* the cutoff was fixed: one timestamp recorded, the loop goes on
C39_Witness ==
    /\ pgLast.kind = "visit"
    /\ ~pgLast.stop
    /\ pgCfg.max_age_hours = 24
    /\ pgLast.now = 1
    /\ pgLast.links = <<[href |-> "/job/a", posted_text |-> Some(TwoHoursAgo)],
                        [href |-> "/job/a", posted_text |-> None]>>
    /\ pgLast.page_posted_ats = <<1 - 2>>
    /\ pgPc = "loop"
    /\ pgPageNum = pgLast.page_num + 1

\* the loops that end: at an old label in the middle of a page
C39_WitnessCutoff ==
    /\ pgPc = "done"
    /\ pgLast.reason = "cutoff"
    /\ pgLast.page_posted_ats # <<>>

====
